---------------------------- MODULE Spec2Model ----------------------------
(***************************************************************************)
(* The streaming speech-synthesis client of lite-chat-engine               *)
(* (src/unnamed/part_003: buildFrame, parseFrame, TTSManager).             *)
(*                                                                         *)
(* Buffers are sequences of bytes (0..255).  Strings are sequences of      *)
(* character codes below 128, for which UTF-8 encoding and decoding map    *)
(* one character to one byte of the same value.                            *)
(***************************************************************************)
EXTENDS Integers, Sequences, FiniteSets, TLC

(***************************************************************************)
(* Bounds of the model.                                                    *)
(***************************************************************************)
\* inbound frames that change the state of one synthesize call
MaxMsgs == 5
\* inbound frames delivered to a call after its promise was settled
MaxLate == 1
\* bytes a buffer may lose at its end before it is decoded
MaxCut == 2
\* files in the audio directory when the sweep of a call runs
MaxFiles == 55
\* the largest sticky setting of a world-book entry, in turns
MaxSticky == 2
\* config.chat.maxHistoryLength: messages a session keeps
MaxHistory == 4
\* sockets an OneBotClient creates in one run
MaxSockets == 4
\* parts parseVoiceTags finds in one reply
MaxParts == 3

(***************************************************************************)
(* Program constants.                                                      *)
(***************************************************************************)
\* text.length > 1000 / text.substring(0, 1000)
TextLimit == 1000
\* files.length > 50 / files.slice(50)
Retention == 50
\* sessionIdLen < 100
SessionIdLimit == 100
\* saturation value of an unsigned 32-bit read: every length above it
\* compares like it against the buffer sizes and limits of the model
Huge == 1073741824

Events ==
    [ StartConnection   |-> 1,   FinishConnection   |-> 2,
      StartSession      |-> 100, CancelSession      |-> 101,
      FinishSession     |-> 102, TaskRequest        |-> 200,
      ConnectionStarted |-> 50,  ConnectionFailed   |-> 51,
      ConnectionFinished |-> 52, SessionStarted     |-> 150,
      SessionCanceled   |-> 151, SessionFinished    |-> 152,
      SessionFailed     |-> 153, TTSSentenceStart   |-> 350,
      TTSSentenceEnd    |-> 351, TTSResponse        |-> 352 ]

(***************************************************************************)
(* Values.                                                                 *)
(***************************************************************************)
\* A number that may be null is a sequence: <<>> is null, <<n>> is n.
NullInt == <<>>
Num(n) == << n >>
\* JavaScript null / undefined where a string is expected
NoString == << -1 >>

\* A payload value as parseFrame returns it and buildFrame accepts it:
\* null, a Buffer, a parsed JSON object or a string.
NullPayload == [kind |-> "null",   bytes |-> <<>>, message |-> NoString, data |-> NoString]
BufferPayload(b) == [kind |-> "buffer", bytes |-> b, message |-> NoString, data |-> NoString]
StringPayload(s) == [kind |-> "string", bytes |-> s, message |-> NoString, data |-> NoString]
ObjectPayload(m, d) == [kind |-> "object", bytes |-> <<>>, message |-> m, data |-> d]

\* JavaScript truthiness of a string field: undefined and "" are falsy
Truthy(s) == s # NoString /\ s # <<>>

RECURSIVE Concat(_)
Concat(chunks) ==
    IF chunks = <<>> THEN <<>> ELSE Head(chunks) \o Concat(Tail(chunks))

Slice(data, from, to) == SubSeq(data, from + 1, to)

(***************************************************************************)
(* Integers on the wire.                                                   *)
(***************************************************************************)
\* a variant that writes the four bytes least significant first
WriteUInt32LE(n) ==
    << n % 256, (n \div 256) % 256, (n \div 65536) % 256, (n \div 16777216) % 256 >>

WriteUInt32BE(n) ==
    << (n \div 16777216) % 256, (n \div 65536) % 256, (n \div 256) % 256, n % 256 >>

\* two's complement of a signed 32-bit value
WriteInt32BE(n) ==
    IF n >= 0 THEN WriteUInt32BE(n)
    ELSE LET m == (0 - n) - 1
         IN  << 255 - ((m \div 16777216) % 256), 255 - ((m \div 65536) % 256),
                255 - ((m \div 256) % 256), 255 - (m % 256) >>

\* a variant that reads the four bytes in the opposite order
ReadInt32LE(data, offset) ==
    LET b0 == data[offset + 4]
        hi == IF b0 >= 128 THEN b0 - 256 ELSE b0
    IN  (hi * 16777216) + (data[offset + 3] * 65536) + (data[offset + 2] * 256) + data[offset + 1]

ReadInt32BE(data, offset) ==
    LET b0 == data[offset + 1]
        hi == IF b0 >= 128 THEN b0 - 256 ELSE b0
    IN  (hi * 16777216) + (data[offset + 2] * 65536) + (data[offset + 3] * 256) + data[offset + 4]

\* a variant that reads the four bytes least significant first
ReadUInt32LE(data, offset) ==
    LET b3 == data[offset + 4]
    IN  IF b3 >= 64 THEN Huge
        ELSE (b3 * 16777216) + (data[offset + 3] * 65536) + (data[offset + 2] * 256) + data[offset + 1]

ReadUInt32BE(data, offset) ==
    LET b0 == data[offset + 1]
    IN  IF b0 >= 64 THEN Huge
        ELSE (b0 * 16777216) + (data[offset + 2] * 65536) + (data[offset + 3] * 256) + data[offset + 4]

(***************************************************************************)
(* JSON and base64, on the documents the model exchanges.                  *)
(***************************************************************************)
\* "{}"
JsonEmpty == << 123, 125 >>
\* {"message":"<m>"}
JsonMessage(m) == << 123, 34, 109, 101, 115, 115, 97, 103, 101, 34, 58, 34 >> \o m \o << 34, 125 >>
\* {"data":"<d>"}
JsonData(d) == << 123, 34, 100, 97, 116, 97, 34, 58, 34 >> \o d \o << 34, 125 >>

\* the characters a JSON string body of the model may hold (no quote, no
\* backslash, no control character)
PlainChars(s) == \A i \in 1..Len(s) : s[i] >= 32 /\ s[i] < 127 /\ s[i] # 34 /\ s[i] # 92

JSONStringify(p) ==
    IF p.message # NoString THEN JsonMessage(p.message)
    ELSE IF p.data # NoString THEN JsonData(p.data)
    ELSE JsonEmpty

\* JSON.parse: [ok |-> TRUE, value |-> object] or [ok |-> FALSE] (it throws)
JSONParse(s) ==
    LET n == Len(s)
        msgHead == JsonMessage(<<>>)
        datHead == JsonData(<<>>)
        body(k) == SubSeq(s, k + 1, n - 2)
    IN  IF s = JsonEmpty THEN [ok |-> TRUE, value |-> ObjectPayload(NoString, NoString)]
        ELSE IF /\ n >= Len(msgHead)
                /\ SubSeq(s, 1, 12) = SubSeq(msgHead, 1, 12)
                /\ SubSeq(s, n - 1, n) = << 34, 125 >>
                /\ PlainChars(body(12))
             THEN [ok |-> TRUE, value |-> ObjectPayload(body(12), NoString)]
        ELSE IF /\ n >= Len(datHead)
                /\ SubSeq(s, 1, 9) = SubSeq(datHead, 1, 9)
                /\ SubSeq(s, n - 1, n) = << 34, 125 >>
                /\ PlainChars(body(9))
             THEN [ok |-> TRUE, value |-> ObjectPayload(NoString, body(9))]
        ELSE [ok |-> FALSE, value |-> NullPayload]

\* value of one base64 character, -1 for a character outside the alphabet
Base64Value(c) ==
    IF c >= 65 /\ c <= 90 THEN c - 65
    ELSE IF c >= 97 /\ c <= 122 THEN c - 71
    ELSE IF c >= 48 /\ c <= 57 THEN c + 4
    ELSE IF c = 43 THEN 62
    ELSE IF c = 47 THEN 63
    ELSE -1

\* Buffer.from(s, 'base64') for strings over the alphabet and '=' padding
RECURSIVE Base64Decode(_)
Base64Decode(s) ==
    LET v(i) == Base64Value(s[i])
        ok(i) == Len(s) >= i /\ v(i) >= 0
    IN  IF ~(ok(1) /\ ok(2)) THEN <<>>
        ELSE LET b1 == (v(1) * 4) + (v(2) \div 16)
             IN  IF ~ok(3) THEN << b1 >>
                 ELSE LET b2 == ((v(2) % 16) * 16) + (v(3) \div 4)
                      IN  IF ~ok(4) THEN << b1, b2 >>
                          ELSE << b1, b2, ((v(3) % 4) * 64) + v(4) >>
                                   \o Base64Decode(SubSeq(s, 5, Len(s)))

(***************************************************************************)
(* buildFrame: the wire bytes of one frame.                                *)
(***************************************************************************)
\* Buffer.isBuffer(payload) ? payload : Buffer.from(JSON.stringify(payload))
PayloadBuf(payload) ==
    IF payload.kind = "buffer" THEN payload.bytes ELSE JSONStringify(payload)

\* sessionId = NoString stands for null; payload = NullPayload for none
buildFrame(messageType, messageTypeFlags, serializationMethod, compressionMethod, eventNumber, sessionId, payload) ==
    LET header == << 17, (messageType * 16) + messageTypeFlags,
                     (serializationMethod * 16) + compressionMethod, 0 >>
        eventBuf == IF (messageTypeFlags \div 4) % 2 = 1
                    THEN WriteInt32BE(eventNumber) ELSE <<>>
        sessionPart == IF Truthy(sessionId)
                       THEN WriteUInt32BE(Len(sessionId)) \o sessionId ELSE <<>>
        payloadPart == IF payload.kind # "null"
                       THEN WriteUInt32BE(Len(PayloadBuf(payload))) \o PayloadBuf(payload)
                       ELSE <<>>
    IN  header \o eventBuf \o sessionPart \o payloadPart

(***************************************************************************)
(* parseFrame: the frame decoded from the bytes of one inbound message.    *)
(***************************************************************************)
\* JSON.parse(buf.toString('utf-8')), the string itself when that throws
ParseJsonOrString(payloadBuf) ==
    IF JSONParse(payloadBuf).ok THEN JSONParse(payloadBuf).value
    ELSE StringPayload(payloadBuf)

NoHeader ==
    [ protocolVersion |-> 0, headerSize |-> 0, messageType |-> 0,
      messageTypeFlags |-> 0, serializationMethod |-> 0, compressionMethod |-> 0 ]

\* a variant that never reports an error
FrameWithoutError(error, header, eventNumber, sessionId, sequenceNumber, errorCode, payload, isError) ==
    [ error |-> "", header |-> header, eventNumber |-> eventNumber,
      sessionId |-> sessionId, sequenceNumber |-> sequenceNumber,
      errorCode |-> errorCode, payload |-> payload, isError |-> isError ]

Frame(error, header, eventNumber, sessionId, sequenceNumber, errorCode, payload, isError) ==
    [ error |-> error, header |-> header, eventNumber |-> eventNumber,
      sessionId |-> sessionId, sequenceNumber |-> sequenceNumber,
      errorCode |-> errorCode, payload |-> payload, isError |-> isError ]

parseFrame(data) ==
    IF Len(data) < 4
    THEN Frame("Frame too short", NoHeader, NullInt, NoString, NullInt, NullInt, NullPayload, FALSE)
    ELSE
    LET n == Len(data)
        header ==
            [ protocolVersion     |-> data[1] \div 16,
              headerSize          |-> (data[1] % 16) * 4,
              messageType         |-> data[2] \div 16,
              messageTypeFlags    |-> data[2] % 16,
              serializationMethod |-> data[3] \div 16,
              compressionMethod   |-> data[3] % 16 ]
        offset0 == header.headerSize
        hasEvent == (header.messageTypeFlags \div 4) % 2 = 1
        readEvent == hasEvent /\ offset0 + 4 <= n
        eventNumber == IF readEvent THEN Num(ReadInt32BE(data, offset0)) ELSE NullInt
        offset1 == IF readEvent THEN offset0 + 4 ELSE offset0
        \* the error frame: error code, then a length-prefixed payload
        errorCode == Num(ReadInt32BE(data, offset1))
        errLenAt == offset1 + 4
        errLen == ReadUInt32BE(data, errLenAt)
        errPayload ==
            IF errLenAt + 4 <= n /\ errLenAt + 4 + errLen <= n
            THEN ParseJsonOrString(Slice(data, errLenAt + 4, errLenAt + 4 + errLen))
            ELSE NullPayload
        \* the normal frame
        hasSequence == header.messageTypeFlags % 2 = 1
        readSequence == hasSequence /\ offset1 + 4 <= n
        sequenceNumber == IF readSequence THEN Num(ReadInt32BE(data, offset1)) ELSE NullInt
        offset2 == IF readSequence THEN offset1 + 4 ELSE offset1
        wantsSession == eventNumber # NullInt /\ eventNumber[1] >= 100 /\ offset2 + 4 <= n
        sessionIdLen == ReadUInt32BE(data, offset2)
        readSession == /\ wantsSession
                       /\ sessionIdLen > 0
                       /\ sessionIdLen < SessionIdLimit
                       /\ offset2 + 4 + sessionIdLen <= n
        sessionId == IF readSession
                     THEN Slice(data, offset2 + 4, offset2 + 4 + sessionIdLen)
                     ELSE NoString
        offset3 == IF readSession THEN offset2 + 4 + sessionIdLen
                   ELSE IF wantsSession THEN offset2 + 4
                   ELSE offset2
        payloadLen == ReadUInt32BE(data, offset3)
        readPayload == /\ offset3 + 4 <= n
                       /\ payloadLen > 0
                       /\ offset3 + 4 + payloadLen <= n
        payloadBuf == Slice(data, offset3 + 4, offset3 + 4 + payloadLen)
        payload ==
            IF ~readPayload THEN NullPayload
            ELSE IF header.serializationMethod = 1 THEN ParseJsonOrString(payloadBuf)
            ELSE BufferPayload(payloadBuf)
    IN  IF header.messageType = 15 /\ offset1 + 4 <= n
        THEN Frame("", header, eventNumber, NoString, NullInt, errorCode, errPayload, TRUE)
        ELSE Frame("", header, eventNumber, sessionId, sequenceNumber, NullInt, payload, FALSE)

(***************************************************************************)
(* TTSManager: the voice config, the audio directory and the synthesize    *)
(* calls.                                                                  *)
(***************************************************************************)
VARIABLES
    env,        \* what the users of the module do in this run
    config,     \* this.config
    call,       \* per synthesize call: the closure state of its promise
    audioDir,   \* the files of AUDIO_DIR
    now,        \* the clock read by Date.now() and by the file system
    hist,       \* per call: history of what the transport delivered
    codec,      \* the frame codec at work on one frame, outside any call
    session,    \* SessionManager: the session of one chat
    bot,        \* OneBotClient: its sockets, this.ws, this.connected, timers
    reply       \* handleMessage: one reply on its way out, part by part

vars == << env, config, call, audioDir, now, hist, codec, session, bot, reply >>

\* the parts of the program that a run leaves out
NoSession == [ pc |-> "none" ]
NoBot == [ pc |-> "none" ]
NoReply == [ pc |-> "none" ]

\* the synthesize calls of one run
Callers == {1}
\* two calls made on one TTSManager, in flight together
Concurrent == {1, 2}

\* the config of the constructor; ratios are in hundredths (100 is 1.0)
DefaultConfig ==
    [ appid |-> "", token |-> "",
      voiceType |-> "zh_female_shuangkuaisisi_moon_bigtts",
      encoding |-> "mp3",
      speedRatio |-> 100, volumeRatio |-> 100, pitchRatio |-> 100,
      enabled |-> FALSE ]

\* options passed to updateConfig: the switch and the credentials
CredentialOptions ==
    { [enabled |-> TRUE],
      [enabled |-> TRUE, appid |-> "app"],
      [enabled |-> TRUE, token |-> "tok"],
      [appid |-> "app", token |-> "tok"],
      [enabled |-> TRUE, appid |-> "app", token |-> "tok"] }

\* options passed to updateConfig: a working config, and another voice
VoiceOptions ==
    { [enabled |-> TRUE, appid |-> "app", token |-> "tok"],
      [encoding |-> "wav", voiceType |-> "zh_male_chunhouzhubo",
       speedRatio |-> 150, volumeRatio |-> 80] }

\* { ...this.config, ...options }
Merge(cfg, options) ==
    [ k \in DOMAIN cfg \cup DOMAIN options |->
        IF k \in DOMAIN options THEN options[k] ELSE cfg[k] ]

\* A text is a window of a fixed stream of characters: the len characters
\* that follow the first off ones.  Chars(t) is the text written out.
Char(i) == 97 + (i % 7)
Text(off, len) == [ off |-> off, len |-> len ]
Chars(t) == [ i \in 1..t.len |-> Char(t.off + i) ]

\* text.substring(start, end), for 0 <= start <= end <= text.length
Substring(text, start, end) == Text(text.off + start, end - start)

\* the texts passed to synthesize: two characters, and one more than the limit
ShortText == Text(0, 2)
Texts == { ShortText, Text(0, TextLimit + 1) }

\* a variant that sends the text as it was passed
NoTruncate(text) == text

\* text.length > 1000 ? text.substring(0, 1000) : text
Truncate(text) ==
    IF text.len > TextLimit THEN Substring(text, 0, TextLimit) ELSE text

\* uuidv4(): one fresh token per call
SessionId(c) == << 115, 48 + c >>
ConnectId(c) == << 99, 48 + c >>

NoPath == [ prefix |-> "", stamp |-> -1, ext |-> "" ]
Pending == [ status |-> "pending", error |-> "", detail |-> <<>>, path |-> NoPath ]
Rejected(kind, detail) ==
    [ status |-> "rejected", error |-> kind, detail |-> detail, path |-> NoPath ]
Resolved(path) == [ status |-> "resolved", error |-> "", detail |-> <<>>, path |-> path ]

NewCall ==
    [ pc |-> "new", arg |-> Text(0, 0), text |-> Text(0, 0),
      ws |-> "none", headers |-> <<>>, timer |-> "none",
      connectionStarted |-> FALSE, sessionStarted |-> FALSE,
      audioChunks |-> <<>>, sent |-> <<>>, outcome |-> Pending ]

NewHist ==
    [ nMsgs |-> 0, late |-> 0, happy |-> "idle", audioIn |-> <<>>,
      writes |-> 0, sweeps |-> 0, snap |-> DefaultConfig ]

(***************************************************************************)
(* The steps of the promise and of the socket, on one call's record.       *)
(***************************************************************************)
\* reject(new Error(...)): the first settlement of a promise wins
Reject(r, kind, detail) ==
    IF r.outcome.status = "pending"
    THEN [r EXCEPT !.outcome = Rejected(kind, detail)] ELSE r

\* resolve(filepath)
Resolve(r, path) ==
    IF r.outcome.status = "pending" THEN [r EXCEPT !.outcome = Resolved(path)] ELSE r

\* a variant that leaves the timer running
KeepTimeout(r) == r

\* clearTimeout(timeout)
ClearTimeout(r) ==
    [r EXCEPT !.timer = IF @ = "armed" THEN "cleared" ELSE @]

\* ws.close(): starts the closing handshake of a socket not yet closing
WsCloseCall(r) ==
    [r EXCEPT !.ws = IF @ \in {"connecting", "open"} THEN "closing" ELSE @]

\* a variant that puts every frame on the socket twice
WsSendTwice(r, frame) ==
    IF r.ws = "open" THEN [r EXCEPT !.sent = Append(Append(@, frame), frame)] ELSE r

\* ws.send(frame): the frame goes out on an open socket; a socket that is
\* closing or closed sends nothing
WsSend(r, frame) ==
    IF r.ws = "open" THEN [r EXCEPT !.sent = Append(@, frame)] ELSE r

\* the arguments of a buildFrame call of the client: full-client request,
\* with event number, JSON, no compression
ClientFrame(eventNumber, sessionId, payload) ==
    [ messageType |-> 1, messageTypeFlags |-> 4, serializationMethod |-> 1,
      compressionMethod |-> 0, eventNumber |-> eventNumber,
      sessionId |-> sessionId, payload |-> payload ]

EmptyObject == [ kind |-> "empty" ]

StartConnectionFrame == ClientFrame(Events.StartConnection, NoString, EmptyObject)

StartSessionFrame(c, cfg) ==
    ClientFrame(Events.StartSession, SessionId(c),
        [ user |-> [ uid |-> "tavern-link-user" ],
          event |-> Events.StartSession,
          namespace |-> "BidirectionalTTS",
          req_params |->
            [ text |-> Text(0, 0),
              speaker |-> cfg.voiceType,
              audio_params |-> [ format |-> cfg.encoding, sample_rate |-> 24000 ] ] ])

\* Math.round((ratio - 1) * 100) on a ratio given in hundredths
Rate(ratio) == ratio - 100

TaskRequestFrame(c, cfg, text) ==
    ClientFrame(Events.TaskRequest, SessionId(c),
        [ user |-> [ uid |-> "tavern-link-user" ],
          event |-> Events.TaskRequest,
          namespace |-> "BidirectionalTTS",
          req_params |->
            [ text |-> text,
              speaker |-> cfg.voiceType,
              audio_params |->
                [ format |-> cfg.encoding, sample_rate |-> 24000,
                  speech_rate |-> Rate(cfg.speedRatio),
                  loudness_rate |-> Rate(cfg.volumeRatio) ] ] ])

\* a variant that ends the session without naming it
FinishSessionFrameNoId(c) == ClientFrame(Events.FinishSession, NoString, EmptyObject)

\* a variant that cancels the session instead of finishing it
CancelSessionFrame(c) == ClientFrame(Events.CancelSession, SessionId(c), EmptyObject)

FinishSessionFrame(c) == ClientFrame(Events.FinishSession, SessionId(c), EmptyObject)

FinishConnectionFrame == ClientFrame(Events.FinishConnection, NoString, EmptyObject)

(***************************************************************************)
(* The audio directory.                                                    *)
(***************************************************************************)
\* a variant that names every file .mp3
FileNameMp3(stamp, encoding) == [ prefix |-> "tts_", stamp |-> stamp, ext |-> "mp3" ]

\* `tts_${Date.now()}.${this.config.encoding}`
FileName(stamp, encoding) == [ prefix |-> "tts_", stamp |-> stamp, ext |-> encoding ]

\* fs.writeFileSync(filepath, audioBuffer) at clock value t
WriteFile(dir, name, data, t) ==
    { f \in dir : f.name # name } \cup { [ name |-> name, mtime |-> t, data |-> data ] }

\* a variant that lists the files of every name
CleanupDeletesAnyName(dir) ==
    UNION { IF Cardinality(files) > Retention
            THEN { { f \in files :
                       Cardinality({ g \in files : g.mtime > f.mtime }) >= Retention } }
            ELSE { {} } :
            files \in { dir } }

\* a variant that sorts by modification time, oldest first
CleanupDeletesOldestFirst(dir) ==
    UNION { IF Cardinality(files) > Retention
            THEN { { f \in files :
                       Cardinality({ g \in files : g.mtime < f.mtime }) >= Retention } }
            ELSE { {} } :
            files \in { { f \in dir : f.name.prefix = "tts_" } } }

\* cleanupAudio: the sets of files one sweep may delete.  The files named
\* tts_* are sorted by modification time, newest first, and those after the
\* first 50 are deleted; among files of one modification time the order is
\* that of the directory listing.  So the sweep deletes as many files as
\* exceed 50, each time one that no remaining file is older than.
CleanupDeletes(dir) ==
    UNION { IF Cardinality(files) > Retention
            THEN LET RECURSIVE Oldest(_, _)
                     Oldest(rest, excess) ==
                        IF excess = 0
                        THEN { {} }
                        ELSE UNION { { { f } \cup D : D \in Oldest(rest \ { f }, excess - 1) } :
                                     f \in { f \in rest :
                                               \A g \in rest : f.mtime <= g.mtime } }
                 IN  Oldest(files, Cardinality(files) - Retention)
            ELSE { {} } :
            files \in { { f \in dir : f.name.prefix = "tts_" } } }

\* no file
NoFile == [ name |-> NoPath, mtime |-> -1, data |-> <<>> ]

\* the file of the listing that is no longer there when fs.unlinkSync
\* reaches it: none, or, where other processes delete in the directory,
\* any file the sweep is about to delete
Vanished(D) == { NoFile } \cup (IF "others" \in DOMAIN env THEN D ELSE {})

\* files.slice(50).forEach(unlinkSync) when the unlink of gone throws: the
\* list is sorted newest first, so the files newer than gone are deleted
\* already, gone is not there, and the older ones are never reached
Unlinked(D, gone) == { f \in D : f.mtime >= gone.mtime }

(***************************************************************************)
(* The messages the server may deliver on the sockets of the calls.        *)
(***************************************************************************)
ChunkA == << 65 >>
ChunkB == << 66, 67 >>
\* "QkM=", the base64 text of ChunkB
ChunkB64 == << 81, 107, 77, 61 >>
\* "=", a base64 text of no bytes
NoChunkB64 == << 61 >>

\* One message as the server puts it on the wire of call c: the bytes, with
\* what the server meant by them (the kind of message, its event and the
\* audio bytes it carries).
Wire(c, tag, data, kind, event, audio) ==
    [ to |-> c, tag |-> tag, bytes |-> data, kind |-> kind, event |-> event, audio |-> audio ]

ServerJson(c, tag, event, sessionId, payload) ==
    Wire(c, tag, buildFrame(9, 4, 1, 0, event, sessionId, payload), "event", event, <<>>)

ServerAudio(c, tag, sessionId, chunk) ==
    Wire(c, tag, buildFrame(11, 4, 0, 0, Events.TTSResponse, sessionId, BufferPayload(chunk)),
         "event", Events.TTSResponse, chunk)

ServerAudioJson(c, tag, sessionId, b64) ==
    Wire(c, tag, buildFrame(9, 4, 1, 0, Events.TTSResponse, sessionId, ObjectPayload(NoString, b64)),
         "event", Events.TTSResponse, Base64Decode(b64))

ServerError(c, tag, code, message) ==
    Wire(c, tag, << 17, 240, 16, 0 >> \o WriteInt32BE(code)
                   \o WriteUInt32BE(Len(JsonMessage(message))) \o JsonMessage(message),
         "error", 0, <<>>)

\* a message shorter than the 4-byte header, and one whose payload length
\* field announces more bytes than follow
ShortMessage(c) == Wire(c, "Short", << 17, 148 >>, "malformed", 0, <<>>)
OverrunMessage(c) ==
    Wire(c, "Overrun", << 17, 180, 0, 0 >> \o WriteInt32BE(Events.TTSSentenceEnd)
                         \o WriteUInt32BE(9) \o ChunkB,
         "malformed", 0, <<>>)

EmptyJson == ObjectPayload(NoString, NoString)

ServerWires(c) ==
    { ServerJson(c, "ConnectionStarted", Events.ConnectionStarted, NoString, EmptyJson),
      ServerJson(c, "ConnectionFailed", Events.ConnectionFailed, NoString,
                 ObjectPayload(<< 110, 111 >>, NoString)),
      ServerJson(c, "ConnectionFinished", Events.ConnectionFinished, NoString, EmptyJson),
      ServerJson(c, "SessionStarted", Events.SessionStarted, SessionId(c), EmptyJson),
      ServerJson(c, "SessionCanceled", Events.SessionCanceled, SessionId(c), EmptyJson),
      ServerJson(c, "SessionFinished", Events.SessionFinished, SessionId(c), EmptyJson),
      ServerJson(c, "SessionFailed", Events.SessionFailed, SessionId(c), EmptyJson),
      ServerJson(c, "TTSSentenceStart", Events.TTSSentenceStart, SessionId(c), EmptyJson),
      ServerJson(c, "TTSSentenceEnd", Events.TTSSentenceEnd, SessionId(c), EmptyJson),
      ServerAudio(c, "AudioA", SessionId(c), ChunkA),
      ServerAudioJson(c, "AudioB", SessionId(c), ChunkB64),
      ServerAudioJson(c, "AudioNoBytes", SessionId(c), NoChunkB64),
      ServerAudio(c, "AudioNoPayload", SessionId(c), <<>>),
      ServerJson(c, "Unknown", 999, SessionId(c), EmptyJson),
      ServerError(c, "Error", 45000001, << 110, 111 >>),
      ShortMessage(c),
      OverrunMessage(c) }

\* One message as the socket delivers it: the message of the server, with
\* the frame parseFrame decodes from its bytes
Message(w) ==
    [ to |-> w.to, tag |-> w.tag, bytes |-> w.bytes, frame |-> parseFrame(w.bytes),
      kind |-> w.kind, event |-> w.event, audio |-> w.audio ]

ServerMessages == { Message(w) : w \in UNION { ServerWires(c) : c \in Concurrent } }

\* the names of the messages
Tags == { m.tag : m \in ServerMessages }

(***************************************************************************)
(* History: the position of a call on the run of the transition table      *)
(*   open, ConnectionStarted, SessionStarted, AudioResponse+,              *)
(*   SessionFinished, ConnectionFinished                                   *)
(* with nothing else happening in between.                                 *)
(***************************************************************************)
HappyNext(h, m) ==
    IF m.kind # "event" THEN "off"
    ELSE IF h = "opened" /\ m.event = Events.ConnectionStarted THEN "ConnectionStarted"
    ELSE IF h = "ConnectionStarted" /\ m.event = Events.SessionStarted THEN "SessionStarted"
    ELSE IF h \in {"SessionStarted", "AudioResponse"} /\ m.event = Events.TTSResponse
         THEN "AudioResponse"
    ELSE IF h = "AudioResponse" /\ m.event = Events.SessionFinished THEN "SessionFinished"
    ELSE IF h = "SessionFinished" /\ m.event = Events.ConnectionFinished
         THEN "ConnectionFinished"
    ELSE "off"

Off(c) == [hist EXCEPT ![c].happy = "off"]

\* the history of a call with record r after message m was delivered to it
Heard(h, r, m) ==
    [h EXCEPT !.late = IF r.outcome.status = "pending" THEN @ ELSE @ + 1,
              !.happy = HappyNext(@, m),
              !.audioIn = @ \o m.audio]

(***************************************************************************)
(* Initial states.                                                         *)
(***************************************************************************)
\* the state after construction, in a run whose callers pass the given
\* texts to synthesize and the given options to updateConfig, and whose
\* server delivers the messages of the given names
Start(callers, texts, options, messages) ==
    /\ env = [ texts |-> texts, options |-> options, messages |-> messages ]
    /\ config = DefaultConfig
    /\ call = [ c \in callers |-> NewCall ]
    /\ audioDir = {}
    /\ now = 0
    /\ hist = [ c \in callers |-> NewHist ]

\* no frame is at the codec outside the calls
NoCodec == [ pc |-> "none" ]

Init ==
    /\ Start(Callers, { ShortText }, CredentialOptions, Tags \ {"AudioNoBytes"})
    /\ codec = NoCodec
    /\ session = NoSession /\ bot = NoBot /\ reply = NoReply

InitText ==
    /\ Start(Callers, Texts, CredentialOptions,
             { "ConnectionStarted", "SessionStarted", "AudioA", "SessionFinished",
               "ConnectionFinished", "Error" })
    /\ codec = NoCodec
    /\ session = NoSession /\ bot = NoBot /\ reply = NoReply

InitConfig ==
    /\ Start(Callers, { ShortText }, VoiceOptions, Tags \ {"AudioA"})
    /\ codec = NoCodec
    /\ session = NoSession /\ bot = NoBot /\ reply = NoReply

\* the files earlier calls left in the audio directory: n files written
\* at the clock values 1..n
OldFiles(n) ==
    { [ name |-> FileName(i, "mp3"), mtime |-> i, data |-> ChunkA ] : i \in 1..n }

\* directories below, at and above the retention count; with the file a
\* call writes, the largest holds MaxFiles files
DirSizes == { 0, Retention - 1, Retention, MaxFiles - 1 }

\* the config of a caller that holds credentials
WorkingOptions == { [enabled |-> TRUE, appid |-> "app", token |-> "tok"] }

\* the messages of the transition table
TableMessages ==
    { "ConnectionStarted", "SessionStarted", "AudioA", "SessionFinished",
      "ConnectionFinished" }

\* a later start of the process: the audio directory holds files of
\* earlier calls
InitSweep ==
    /\ \E n \in DirSizes :
          /\ env = [ texts |-> { ShortText }, options |-> WorkingOptions,
                     messages |-> TableMessages, files |-> n ]
          /\ audioDir = OldFiles(n)
    /\ config = DefaultConfig
    /\ call = [ c \in Callers |-> NewCall ]
    /\ now = MaxFiles + 1
    /\ hist = [ c \in Callers |-> NewHist ]
    /\ codec = NoCodec
    /\ session = NoSession /\ bot = NoBot /\ reply = NoReply

\* a directory above the retention count in which other processes delete
\* files too
InitShared ==
    /\ env = [ texts |-> { ShortText }, options |-> WorkingOptions,
               messages |-> TableMessages, files |-> MaxFiles - 1, others |-> TRUE ]
    /\ audioDir = OldFiles(MaxFiles - 1)
    /\ config = DefaultConfig
    /\ call = [ c \in Callers |-> NewCall ]
    /\ now = MaxFiles + 1
    /\ hist = [ c \in Callers |-> NewHist ]
    /\ codec = NoCodec
    /\ session = NoSession /\ bot = NoBot /\ reply = NoReply

\* files in the audio directory that are not synthesized clips: one older
\* and one newer than every clip that is there at the start
OtherFiles ==
    { [ name |-> [ prefix |-> "rec_", stamp |-> 0, ext |-> "mp3" ], mtime |-> 0,
        data |-> ChunkB ],
      [ name |-> [ prefix |-> "note_", stamp |-> MaxFiles, ext |-> "txt" ], mtime |-> MaxFiles,
        data |-> ChunkB ] }

\* two calls, one after the other or together, into a directory one clip
\* below the retention count that also holds other files
InitDirectory ==
    /\ env = [ texts |-> { ShortText }, options |-> WorkingOptions,
               messages |-> { "AudioA", "ConnectionFinished" }, files |-> Retention - 1 ]
    /\ audioDir = OldFiles(Retention - 1) \cup OtherFiles
    /\ config = DefaultConfig
    /\ call = [ c \in Concurrent |-> NewCall ]
    /\ now = MaxFiles + 1
    /\ hist = [ c \in Concurrent |-> NewHist ]
    /\ codec = NoCodec
    /\ session = NoSession /\ bot = NoBot /\ reply = NoReply

\* two calls in flight together, each on its own socket
InitConcurrent ==
    /\ Start(Concurrent, { ShortText }, WorkingOptions,
             { "AudioA", "ConnectionFinished" })
    /\ codec = NoCodec
    /\ session = NoSession /\ bot = NoBot /\ reply = NoReply

\* the messages of the transition table, the sentence events and an
\* event number the client does not know
InitInformational ==
    /\ Start(Callers, { ShortText }, WorkingOptions,
             TableMessages \cup { "TTSSentenceStart", "TTSSentenceEnd", "Unknown" })
    /\ codec = NoCodec
    /\ session = NoSession /\ bot = NoBot /\ reply = NoReply

(***************************************************************************)
(* Operations.                                                             *)
(***************************************************************************)
\* updateConfig(options)
updateConfig(options) ==
    /\ config' = Merge(config, options)
    /\ UNCHANGED << env, call, audioDir, now, hist, codec, session, bot, reply >>

\* a variant that skips the check of the switch
AlwaysEnabled(cfg) == TRUE

\* this.config.enabled
Enabled(cfg) == cfg.enabled

\* a variant that checks the appid alone
HasAppid(cfg) == cfg.appid # ""

\* !(!this.config.appid || !this.config.token)
Credentials(cfg) == cfg.appid # "" /\ cfg.token # ""

\* synthesize(text), up to the return of the promise: the checks of the
\* config, the truncation, new WebSocket(...) and setTimeout(..., 30000)
synthesize(c, text) ==
    /\ call[c].pc = "new"
    /\ LET r == [call[c] EXCEPT !.pc = "called", !.arg = text]
       IN  call' = [call EXCEPT ![c] =
             IF ~Enabled(config)
             THEN Reject(r, "NotEnabled", <<>>)
             ELSE IF ~Credentials(config)
             THEN Reject(r, "MissingCredentials", <<>>)
             ELSE [r EXCEPT !.text = Truncate(text),
                            !.ws = "connecting",
                            !.headers = << config.appid, config.token,
                                           "seed-tts-2.0", ConnectId(c) >>,
                            !.timer = "armed"]]
    /\ hist' = [hist EXCEPT ![c].snap = config,
                            ![c].happy = IF call'[c].ws = "connecting" THEN "called" ELSE "off"]
    /\ UNCHANGED << env, config, audioDir, now, codec, session, bot, reply >>

\* the timer callback: ws.close(); reject(timeout)
Timeout(c) ==
    /\ call[c].timer = "armed"
    /\ call' = [call EXCEPT ![c] =
                  Reject(WsCloseCall([call[c] EXCEPT !.timer = "fired"]), "Timeout", <<>>)]
    /\ hist' = Off(c)
    /\ UNCHANGED << env, config, audioDir, now, codec, session, bot, reply >>

\* ws.on('open'): send StartConnection
WsOpen(c) ==
    /\ call[c].ws = "connecting"
    /\ call' = [call EXCEPT ![c] = WsSend([call[c] EXCEPT !.ws = "open"], StartConnectionFrame)]
    /\ hist' = [hist EXCEPT ![c].happy = IF @ = "called" THEN "opened" ELSE "off"]
    /\ UNCHANGED << env, config, audioDir, now, codec, session, bot, reply >>

\* ws.on('error'): clearTimeout; reject.  The handler leaves the socket as
\* the transport hands it over: as it was, or already closing.
WsError(c) ==
    /\ call[c].ws \in {"connecting", "open", "closing"}
    /\ \E r \in { call[c], WsCloseCall(call[c]) } :
          call' = [call EXCEPT ![c] = Reject(ClearTimeout(r), "WebSocketError", <<>>)]
    /\ hist' = Off(c)
    /\ UNCHANGED << env, config, audioDir, now, codec, session, bot, reply >>

\* ws.on('close'): the socket is closed; clearTimeout
WsClose(c) ==
    /\ call[c].ws \in {"connecting", "open", "closing"}
    /\ call' = [call EXCEPT ![c] = ClearTimeout([call[c] EXCEPT !.ws = "closed"])]
    /\ hist' = [hist EXCEPT ![c].happy = IF @ = "ConnectionFinished" THEN @ ELSE "off"]
    /\ UNCHANGED << env, config, audioDir, now, codec, session, bot, reply >>

\* frame.payload?.message || fallback
MessageOr(frame, fallback) ==
    IF Truthy(frame.payload.message) THEN frame.payload.message ELSE fallback

\* a variant with one accumulator for all calls, kept by the first
PushAudioShared(r, frame) ==
    IF frame.payload.kind = "buffer"
    THEN [r EXCEPT !.audioChunks = Append(call[1].audioChunks, frame.payload.bytes)]
    ELSE IF Truthy(frame.payload.data)
    THEN [r EXCEPT !.audioChunks =
                      Append(call[1].audioChunks, Base64Decode(frame.payload.data))]
    ELSE r

\* a variant that puts the newest chunk first
PushAudioFront(r, frame) ==
    IF frame.payload.kind = "buffer"
    THEN [r EXCEPT !.audioChunks = << frame.payload.bytes >> \o @]
    ELSE IF Truthy(frame.payload.data)
    THEN [r EXCEPT !.audioChunks = << Base64Decode(frame.payload.data) >> \o @]
    ELSE r

\* case Events.TTSResponse: the chunk pushed on audioChunks, if any
PushAudio(r, frame) ==
    IF frame.payload.kind = "buffer"
    THEN [r EXCEPT !.audioChunks = Append(@, frame.payload.bytes)]
    ELSE IF Truthy(frame.payload.data)
    THEN [r EXCEPT !.audioChunks = Append(@, Base64Decode(frame.payload.data))]
    ELSE r

\* a variant whose switch fails the call in its default case and on the
\* sentence events, and does nothing else
HandleFrameDefaultFails(c, r, cfg, frame) ==
    IF \/ frame.isError
       \/ frame.eventNumber \in
             { Num(Events.ConnectionStarted), Num(Events.ConnectionFailed),
               Num(Events.SessionStarted), Num(Events.SessionFailed),
               Num(Events.TTSResponse), Num(Events.SessionFinished),
               Num(Events.ConnectionFinished) }
    THEN r
    ELSE Reject(WsCloseCall(ClearTimeout(r)), "UnknownEvent", <<>>)

\* ws.on('message') for every frame but a ConnectionFinished that saves audio
HandleFrame(c, r, cfg, frame) ==
    LET event == frame.eventNumber
    IN  IF frame.isError
        THEN Reject(WsCloseCall(ClearTimeout(r)), "ErrorFrame",
                    MessageOr(frame, frame.errorCode))
        ELSE IF event = Num(Events.ConnectionStarted)
        THEN WsSend([r EXCEPT !.connectionStarted = TRUE], StartSessionFrame(c, cfg))
        ELSE IF event = Num(Events.ConnectionFailed)
        THEN Reject(WsCloseCall(ClearTimeout(r)), "ConnectionFailed",
                    MessageOr(frame, "Unknown error"))
        ELSE IF event = Num(Events.SessionStarted)
        THEN WsSend(WsSend([r EXCEPT !.sessionStarted = TRUE],
                           TaskRequestFrame(c, cfg, r.text)),
                    FinishSessionFrame(c))
        ELSE IF event = Num(Events.SessionFailed)
        THEN Reject(WsCloseCall(ClearTimeout(r)), "SessionFailed",
                    MessageOr(frame, "Unknown error"))
        ELSE IF event = Num(Events.TTSSentenceStart) THEN r
        ELSE IF event = Num(Events.TTSResponse) THEN PushAudio(r, frame)
        ELSE IF event = Num(Events.TTSSentenceEnd) THEN r
        ELSE IF event = Num(Events.SessionFinished)
        THEN WsSend(r, FinishConnectionFrame)
        ELSE IF event = Num(Events.ConnectionFinished)
        THEN Reject(WsCloseCall(ClearTimeout(r)), "EmptyResult", <<>>)
        ELSE r

\* Date.now(): the clock does not run backwards
ClockReads == { now, now + 1 }

\* ws.on('message', data), with frame = parseFrame(data)
WsMessage(c, m) ==
    /\ call[c].ws \in {"open", "closing"}
    /\ hist[c].nMsgs < MaxMsgs
    /\ call[c].outcome.status = "pending" \/ hist[c].late < MaxLate
    /\ LET r == call[c]
           frame == m.frame
       IN  IF /\ ~frame.isError
              /\ frame.eventNumber = Num(Events.ConnectionFinished)
              /\ Len(r.audioChunks) > 0
           THEN \E t \in ClockReads :
                  LET audioBuffer == Concat(r.audioChunks)
                      filepath == FileName(t, config.encoding)
                      written == WriteFile(audioDir, filepath, audioBuffer, t)
                  IN  \E D \in CleanupDeletes(written) : \E gone \in Vanished(D) :
                        /\ now' = t
                        /\ hist' = [hist EXCEPT ![c] =
                                      [Heard(hist[c], r, m) EXCEPT !.nMsgs = @ + 1,
                                                                   !.writes = @ + 1,
                                                                   !.sweeps = @ + 1]]
                        /\ IF gone = NoFile
                           THEN /\ audioDir' = written \ D
                                /\ call' = [call EXCEPT ![c] =
                                      Resolve(WsCloseCall(ClearTimeout(r)), filepath)]
                           \* fs.unlinkSync throws out of cleanupAudio and out
                           \* of the handler: resolve(filepath) is not reached
                           ELSE /\ audioDir' = written \ Unlinked(D, gone)
                                /\ call' = [call EXCEPT ![c] =
                                      WsCloseCall(ClearTimeout(r))]
           ELSE /\ call' = [call EXCEPT ![c] = HandleFrame(c, r, config, frame)]
                /\ hist' = [hist EXCEPT ![c] =
                              [Heard(hist[c], r, m) EXCEPT !.nMsgs =
                                  IF call'[c] = r THEN @ ELSE @ + 1]]
                /\ UNCHANGED << audioDir, now >>
    /\ UNCHANGED << env, config, codec, session, bot, reply >>

Next ==
    \/ \E o \in env.options : updateConfig(o)
    \/ \E c \in DOMAIN call : \E t \in env.texts : synthesize(c, t)
    \/ \E c \in DOMAIN call : Timeout(c)
    \/ \E c \in DOMAIN call : WsOpen(c)
    \/ \E c \in DOMAIN call : WsError(c)
    \/ \E c \in DOMAIN call : WsClose(c)
    \/ \E c \in DOMAIN call : \E m \in ServerMessages :
          m.to = c /\ m.tag \in env.messages /\ WsMessage(c, m)

\* one call, a short text, the config switched on and given credentials
Spec == Init /\ [][Next]_vars

\* one call, a short or a long text, the config switched on and given
\* credentials, the messages of the transition table and the error frame
SpecText == InitText /\ [][Next]_vars

\* one call, a short text, the voice of the config changed at any time
SpecConfig == InitConfig /\ [][Next]_vars

\* one call, a short text, a working config, files in the audio directory
SpecSweep == InitSweep /\ [][Next]_vars

\* the same with the timer of setTimeout: while it stays armed it fires
SpecTimer == Init /\ [][Next]_vars /\ \A c \in Callers : WF_vars(Timeout(c))

\* one call, a short text, a working config, the messages of the table
\* and messages that carry no instruction
SpecInformational == InitInformational /\ [][Next]_vars

\* one call that saves into a directory other processes delete from
SpecShared == InitShared /\ [][Next]_vars

\* two calls that save into a directory with clips and other files
SpecDirectory == InitDirectory /\ [][Next]_vars

\* two calls, a short text, a working config, audio chunks and
\* ConnectionFinished
SpecConcurrent == InitConcurrent /\ [][Next]_vars

(***************************************************************************)
(* The frame codec on its own: buildFrame encodes one frame, the buffer    *)
(* may lose bytes at its end on the way, and parseFrame decodes what       *)
(* arrives.                                                                *)
(***************************************************************************)
\* event numbers of both directions, and numbers next to the limit of 100
\* from which a frame carries a session id
EventNumbers ==
    { -1, Events.StartConnection, Events.FinishConnection, Events.ConnectionStarted,
      Events.ConnectionFinished, 99, Events.StartSession, Events.FinishSession,
      Events.SessionStarted, Events.SessionFinished, Events.TaskRequest,
      Events.TTSSentenceEnd }

\* a session id as long as the decoder's limit
LongSessionId == [ i \in 1..SessionIdLimit |-> 115 ]

\* no session id, the id of a call, a long id
SessionIds == { NoString, SessionId(1), LongSessionId }

JsonPayloads ==
    { EmptyJson, ObjectPayload(<< 110, 111 >>, NoString), ObjectPayload(NoString, ChunkB64) }

\* control frames: the arguments of buildFrame for a full request or a full
\* response with event number and JSON payload
ControlFrames ==
    { [ messageType |-> t, messageTypeFlags |-> 4, serializationMethod |-> 1,
        compressionMethod |-> 0, eventNumber |-> e, sessionId |-> s, payload |-> p ] :
      t \in {1, 9}, e \in EventNumbers, s \in SessionIds, p \in JsonPayloads }

\* frames of every layout: with and without the event flag, a session id
\* and a payload, the payload a JSON object or a Buffer
LayoutFrames ==
    { [ messageType |-> t, messageTypeFlags |-> g, serializationMethod |-> z,
        compressionMethod |-> 0, eventNumber |-> e, sessionId |-> s, payload |-> p ] :
      t \in {1, 11}, g \in {0, 4}, z \in {0, 1},
      e \in { Events.StartConnection, Events.TaskRequest },
      s \in { NoString, SessionId(1) },
      p \in { NullPayload, EmptyJson, BufferPayload(ChunkB) } }

\* a frame handed to buildFrame
ToEncode(f) ==
    [ pc |-> "frame", built |-> TRUE, frame |-> f, bytes |-> <<>>, declared |-> 0, cut |-> 0 ]

\* a buffer as a server wrote it, with the payload length it declares
ToDecode(w, declared) ==
    [ pc |-> "encoded", built |-> FALSE, frame |-> w.tag, bytes |-> w.bytes,
      declared |-> declared, cut |-> 0 ]

\* a SessionStarted frame whose session id length field is 0
ZeroSessionIdMessage ==
    Wire(1, "ZeroSessionId", << 17, 148, 16, 0 >> \o WriteInt32BE(Events.SessionStarted)
                               \o WriteUInt32BE(0) \o WriteUInt32BE(Len(JsonEmpty))
                               \o JsonEmpty,
         "event", Events.SessionStarted, <<>>)

\* the buffers a server may write: an error frame, an audio frame with a
\* session id, a frame with an empty session id
DecodeWires ==
    { ServerError(1, "Error", 45000001, << 110, 111 >>),
      ServerAudio(1, "Audio", SessionId(1), ChunkB),
      ZeroSessionIdMessage }

\* the first n bytes of a buffer, for every n: the buffer ends inside the
\* header, the event number, a length field, the session id or the payload
Prefixes(w) ==
    { [ w EXCEPT !.bytes = SubSeq(w.bytes, 1, n) ] : n \in 0..(Len(w.bytes) - 1) }

\* the buffer with every header size its first byte can declare
HeaderSizes(w) ==
    { [ w EXCEPT !.bytes = << 16 + h >> \o Tail(w.bytes) ] : h \in 0..15 }

CodecInputs ==
    { ToEncode(f) : f \in ControlFrames \cup LayoutFrames }
      \cup { ToDecode(ServerError(1, "Error", 45000001, << 110, 111 >>),
                      Len(JsonMessage(<< 110, 111 >>))),
             ToDecode(ServerAudio(1, "Audio", SessionId(1), ChunkB), Len(ChunkB)) }
      \cup { ToDecode(v, 0) : v \in UNION { Prefixes(w) \cup HeaderSizes(w) : w \in DecodeWires } }

InitCodec ==
    /\ Start({}, {}, {}, {})
    /\ codec \in CodecInputs
    /\ session = NoSession /\ bot = NoBot /\ reply = NoReply

\* buildFrame(...)
Encode ==
    /\ codec.pc = "frame"
    /\ LET f == codec.frame
       IN  codec' = [codec EXCEPT
                       !.pc = "encoded",
                       !.bytes = buildFrame(f.messageType, f.messageTypeFlags,
                                            f.serializationMethod, f.compressionMethod,
                                            f.eventNumber, f.sessionId, f.payload),
                       !.declared = Len(PayloadBuf(f.payload))]
    /\ UNCHANGED << env, config, call, audioDir, now, hist, session, bot, reply >>

\* the buffer arrives without its last k bytes, all of them bytes of the
\* payload: the payload length in the buffer announces more than follows
Cut(k) ==
    /\ codec.pc = "encoded"
    /\ codec.cut = 0
    /\ k <= codec.declared
    /\ codec' = [codec EXCEPT !.bytes = SubSeq(@, 1, Len(@) - k), !.cut = k]
    /\ UNCHANGED << env, config, call, audioDir, now, hist, session, bot, reply >>

\* parseFrame(data)
Decode ==
    /\ codec.pc = "encoded"
    /\ codec' = [ pc |-> "decoded", built |-> codec.built, frame |-> codec.frame,
                  bytes |-> codec.bytes, declared |-> codec.declared, cut |-> codec.cut,
                  decoded |-> parseFrame(codec.bytes) ]
    /\ UNCHANGED << env, config, call, audioDir, now, hist, session, bot, reply >>

NextCodec ==
    \/ Encode
    \/ \E k \in 1..MaxCut : Cut(k)
    \/ Decode

\* frames encoded, cut short or not, and decoded
SpecCodec == InitCodec /\ [][NextCodec]_vars

(***************************************************************************)
(* The protocol state of a call, read off its record: the promise, the     *)
(* socket, the flags connectionStarted and sessionStarted, and the         *)
(* FinishConnection frame sent on SessionFinished.                         *)
(***************************************************************************)
Sent(r, eventNumber) ==
    \E i \in 1..Len(r.sent) : r.sent[i].eventNumber = eventNumber

State(r) ==
    IF r.outcome.status = "rejected" THEN "Failed"
    ELSE IF r.outcome.status = "resolved" THEN "Closed"
    ELSE IF r.ws = "none" THEN "Idle"
    ELSE IF Sent(r, Events.FinishConnection) THEN "SessionDraining"
    ELSE IF r.sessionStarted THEN "SessionOpen"
    ELSE IF r.connectionStarted THEN "ConnectionOpen"
    ELSE "ConnectionPending"

\* the transition table: the events that drive a transition in a state.
\* An error frame and a message that does not decode lead to Failed from
\* every state.
ValidIn(state, m) ==
    \/ m.kind # "event"
    \/ /\ state = "ConnectionPending"
       /\ m.event \in { Events.ConnectionStarted, Events.ConnectionFailed }
    \/ /\ state = "ConnectionOpen"
       /\ m.event \in { Events.SessionStarted, Events.SessionFailed }
    \/ /\ state = "SessionOpen"
       /\ m.event \in { Events.TTSSentenceStart, Events.TTSSentenceEnd,
                        Events.TTSResponse, Events.SessionFinished }
    \/ /\ state = "SessionDraining"
       /\ m.event = Events.ConnectionFinished

Min(a, b) == IF a < b THEN a ELSE b

(***************************************************************************)
(* World book and session: the sticky entries of one chat session over     *)
(* the turns of handleMessage.                                             *)
(***************************************************************************)
\* matchEntries(worldBook, allText, 10, stickyKeys)
MaxEntries == 10

\* str.toLowerCase() on the letters A-Z
ToLowerCase(str) ==
    [ i \in 1..Len(str) |-> IF str[i] >= 65 /\ str[i] <= 90 THEN str[i] + 32 ELSE str[i] ]

\* str.includes(sub)
Includes(str, sub) ==
    \E i \in 0..(Len(str) - Len(sub)) : SubSeq(str, i + 1, i + Len(sub)) = sub

\* worldBook.entries: an entry that sticks for MaxSticky turns, one that
\* sticks for one turn, one without stickiness, a constant one and a
\* disabled one; no entry has secondary keys
WorldBook ==
    << [ uid |-> "city", keys |-> << << 97 >> >>, sticky |-> MaxSticky, constant |-> FALSE,
         order |-> 2, enabled |-> TRUE ],
       [ uid |-> "inn", keys |-> << << 98 >> >>, sticky |-> 1, constant |-> FALSE,
         order |-> 1, enabled |-> TRUE ],
       [ uid |-> "road", keys |-> << << 98 >> >>, sticky |-> 0, constant |-> FALSE,
         order |-> 1, enabled |-> TRUE ],
       [ uid |-> "law", keys |-> << >>, sticky |-> MaxSticky, constant |-> TRUE,
         order |-> 3, enabled |-> TRUE ],
       [ uid |-> "gone", keys |-> << << 97 >> >>, sticky |-> 1, constant |-> FALSE,
         order |-> 4, enabled |-> FALSE ] >>

EntryKeys == { WorldBook[i].uid : i \in 1..Len(WorldBook) }

\* primaryMatch && secondaryMatch of an entry without secondary keys
KeywordMatch(entry, inputLower) ==
    \E i \in 1..Len(entry.keys) :
        entry.keys[i] # <<>> /\ Includes(inputLower, ToLowerCase(entry.keys[i]))

\* the object pushed for a constant entry
ConstantData(entry) ==
    [ key |-> entry.uid, order |-> entry.order, isConstant |-> TRUE, sticky |-> 0,
      triggeredByKeyword |-> FALSE, triggeredBySticky |-> FALSE ]

\* the object pushed for an entry that a keyword or stickiness triggers
EntryData(entry, keywordMatch, isStickyActive) ==
    [ key |-> entry.uid, order |-> entry.order, isConstant |-> FALSE, sticky |-> entry.sticky,
      triggeredByKeyword |-> keywordMatch,
      triggeredBySticky |-> isStickyActive /\ ~keywordMatch ]

\* all.sort((a, b) => b.order - a.order): stable, highest order first
RECURSIVE SortByOrder(_)
SortByOrder(all) ==
    IF all = <<>> THEN <<>>
    ELSE LET rest == SortByOrder(Tail(all))
             e == Head(all)
             \* e goes before the first element of lower or equal order
             before == Cardinality({ i \in 1..Len(rest) : rest[i].order > e.order })
         IN  SubSeq(rest, 1, before) \o << e >> \o SubSeq(rest, before + 1, Len(rest))

\* WorldBookManager.matchEntries
matchEntries(worldBook, inputText, maxEntries, stickyKeys) ==
    LET inputLower == ToLowerCase(inputText)
        IsConstant(e) == e.enabled /\ e.constant
        IsMatched(e) == e.enabled /\ ~e.constant /\ KeywordMatch(e, inputLower)
        IsSticky(e) == /\ e.enabled /\ ~e.constant /\ ~KeywordMatch(e, inputLower)
                       /\ e.uid \in stickyKeys
        cs == SelectSeq(worldBook, IsConstant)
        ms == SelectSeq(worldBook, IsMatched)
        ss == SelectSeq(worldBook, IsSticky)
        constants == [ i \in 1..Len(cs) |-> ConstantData(cs[i]) ]
        matched == [ i \in 1..Len(ms) |-> EntryData(ms[i], TRUE, ms[i].uid \in stickyKeys) ]
        stickyMatched == [ i \in 1..Len(ss) |-> EntryData(ss[i], FALSE, TRUE) ]
        all == SortByOrder(constants \o matched \o stickyMatched)
    IN  SubSeq(all, 1, Min(Len(all), maxEntries))

\* historyMessages.map(m => m.content).join(' ')
RECURSIVE Join(_)
Join(messages) ==
    IF messages = <<>> THEN <<>>
    ELSE IF Len(messages) = 1 THEN messages[1].content
    ELSE messages[1].content \o << 32 >> \o Join(Tail(messages))

\* SessionManager.addMessage: push, then keep the last maxHistoryLength
addMessage(messages, role, content) ==
    LET pushed == Append(messages, [ role |-> role, content |-> content ])
    IN  IF Len(pushed) > MaxHistory
        THEN SubSeq(pushed, Len(pushed) - MaxHistory + 1, Len(pushed))
        ELSE pushed

\* SessionManager.updateStickyEntries on the Map as a function from entry
\* key to remaining turns, 0 for a key that is not in the Map
updateStickyEntries(stickyEntries, triggeredEntries) ==
    LET decremented == [ k \in DOMAIN stickyEntries |->
                           IF stickyEntries[k] <= 1 THEN 0 ELSE stickyEntries[k] - 1 ]
        Triggered(k) == { i \in 1..Len(triggeredEntries) :
                            triggeredEntries[i].key = k /\ triggeredEntries[i].sticky > 0 }
    IN  [ k \in DOMAIN stickyEntries |->
            IF Triggered(k) # {}
            THEN triggeredEntries[CHOOSE i \in Triggered(k) : \A j \in Triggered(k) : j <= i].sticky
            ELSE decremented[k] ]

\* getStickyEntryKeys
getStickyEntryKeys(stickyEntries) == { k \in DOMAIN stickyEntries : stickyEntries[k] > 0 }

\* what users write: a text without keyword, the keyword of "city" in
\* lower and in upper case, the keyword of "inn" and "road"
UserTexts == { << 120 >>, << 97 >>, << 65 >>, << 98 >> }

\* what the model answers, after regexProcessor.process
Replies == { << 121 >> }

\* a new session; since counts, per entry, the turns completed without a
\* keyword match of it after its last keyword match (-1: never matched)
NewSession ==
    [ pc |-> "chat", messages |-> <<>>,
      stickyEntries |-> [ k \in EntryKeys |-> 0 ],
      since |-> [ k \in EntryKeys |-> -1 ], last |-> "none" ]

InitSticky ==
    /\ Start({}, {}, {}, {})
    /\ codec = NoCodec
    /\ session = NewSession
    /\ bot = NoBot
    /\ reply = NoReply

\* handleMessage up to updateStickyEntries: getSession, getStickyEntryKeys,
\* promptBuilder.build, aiClient.chat, addMessage twice, updateStickyEntries.
\* A turn whose AI call times out or fails returns before the session is
\* touched.  What follows in the handler sends the reply and leaves the
\* session as it is.
handleMessage(text, outcome, processedReply) ==
    /\ session.pc = "chat"
    /\ LET stickyKeys == getStickyEntryKeys(session.stickyEntries)
           allText == Join(session.messages) \o << 32 >> \o text
       IN  \E worldBookEntries \in { matchEntries(WorldBook, allText, MaxEntries, stickyKeys) } :
             LET ByKeyword(k) == \E i \in 1..Len(worldBookEntries) :
                                    /\ worldBookEntries[i].key = k
                                    /\ worldBookEntries[i].triggeredByKeyword
             IN  IF outcome = "reply"
                 THEN session' =
                        [ session EXCEPT
                            !.messages = addMessage(addMessage(@, "user", text),
                                                    "assistant", processedReply),
                            !.stickyEntries = updateStickyEntries(@, worldBookEntries),
                            !.since = [ k \in EntryKeys |->
                                          IF ByKeyword(k) THEN 0
                                          ELSE IF @[k] < 0 THEN @[k]
                                          ELSE Min(@[k] + 1, MaxSticky + 1) ],
                            !.last = outcome ]
                 ELSE session' = [ session EXCEPT !.last = outcome ]
    /\ UNCHANGED << env, config, call, audioDir, now, hist, codec, bot, reply >>

\* SessionManager.clearHistory
clearHistory ==
    /\ session.pc = "chat"
    /\ session' = [ NewSession EXCEPT !.last = "cleared" ]
    /\ UNCHANGED << env, config, call, audioDir, now, hist, codec, bot, reply >>

NextSticky ==
    \/ \E text \in UserTexts : \E outcome \in { "reply", "AI_TIMEOUT", "error" } :
          \E processedReply \in Replies : handleMessage(text, outcome, processedReply)
    \/ clearHistory

\* the turns of one chat session
SpecSticky == InitSticky /\ [][NextSticky]_vars

(***************************************************************************)
(* OneBotClient: this.ws, this.connected, the sockets it has created and   *)
(* the reconnect timers it has set.                                        *)
(***************************************************************************)
\* a client after its constructor: no socket yet
InitBot ==
    /\ Start({}, {}, {}, {})
    /\ codec = NoCodec
    /\ session = NoSession
    /\ bot = [ pc |-> "bot", sockets |-> <<>>, ws |-> 0, connected |-> FALSE,
               timers |-> 0, last |-> "none" ]
    /\ reply = NoReply

\* if (this.ws) this.ws.close(): a socket that is connecting or open starts
\* closing, its 'close' event comes later; on any other socket nothing
CloseCurrent(b) ==
    IF b.ws # 0
    THEN [ b EXCEPT !.sockets[b.ws] =
             IF @ \in { "connecting", "open" } THEN "closing" ELSE @ ]
    ELSE b

\* connect(): close the current socket if there is one, create a new one
\* with its four handlers and make it the current one
Connect(b) ==
    LET c == CloseCurrent(b)
    IN  [ c EXCEPT !.sockets = Append(@, "connecting"), !.ws = Len(c.sockets) + 1 ]

\* bot.connect() when the server has started
connect ==
    /\ bot.pc = "bot"
    /\ bot.ws = 0
    /\ bot' = Connect(bot)
    /\ UNCHANGED << env, config, call, audioDir, now, hist, codec, session, reply >>

\* reconnect(): close the current socket, then connect()
reconnect ==
    /\ bot.pc = "bot"
    /\ Len(bot.sockets) < MaxSockets
    /\ bot' = Connect(CloseCurrent(bot))
    /\ UNCHANGED << env, config, call, audioDir, now, hist, codec, session, reply >>

\* socket i opens; its 'open' handler sets this.connected
SocketOpen(i) ==
    /\ bot.pc = "bot"
    /\ bot.sockets[i] = "connecting"
    /\ bot' = [ bot EXCEPT !.sockets[i] = "open", !.connected = TRUE ]
    /\ UNCHANGED << env, config, call, audioDir, now, hist, codec, session, reply >>

\* socket i is closed, by the server, by the network or at the end of the
\* closing handshake; its 'close' handler clears this.connected and sets a
\* timer for connect()
SocketClose(i) ==
    /\ bot.pc = "bot"
    /\ bot.sockets[i] \in { "connecting", "open", "closing" }
    /\ bot' = [ bot EXCEPT !.sockets[i] = "closed", !.connected = FALSE, !.timers = @ + 1 ]
    /\ UNCHANGED << env, config, call, audioDir, now, hist, codec, session, reply >>

\* a timer set by a 'close' handler fires: this.connect()
ReconnectTimer ==
    /\ bot.pc = "bot"
    /\ bot.timers > 0
    /\ Len(bot.sockets) < MaxSockets
    /\ bot' = Connect([ bot EXCEPT !.timers = @ - 1 ])
    /\ UNCHANGED << env, config, call, audioDir, now, hist, codec, session, reply >>

\* _call(action, params): rejected at once when this.connected is false,
\* else handed to this.ws.send, which fails on a socket that is not open
Call ==
    /\ bot.pc = "bot"
    /\ bot' = [ bot EXCEPT !.last =
                  IF ~bot.connected THEN "NotConnected"
                  ELSE IF bot.sockets[bot.ws] = "open" THEN "sent"
                  ELSE "SendFailed" ]
    /\ UNCHANGED << env, config, call, audioDir, now, hist, codec, session, reply >>

NextBot ==
    \/ connect
    \/ reconnect
    \/ \E i \in 1..Len(bot.sockets) : SocketOpen(i)
    \/ \E i \in 1..Len(bot.sockets) : SocketClose(i)
    \/ ReconnectTimer
    \/ Call

\* one OneBotClient against a server that can be reached
SpecBot == InitBot /\ [][NextBot]_vars

(***************************************************************************)
(* handleMessage, sending the reply: the parts parseVoiceTags found are    *)
(* sent one after the other; reply.pc is the await the handler stands at.  *)
(***************************************************************************)
\* results of parseVoiceTags that hold a voice part: text parts with one or
\* two segments and voice parts; a text part is the text between two tags,
\* so no two text parts are neighbours
TextParts ==
    { ps \in UNION { [ 1..n -> [ type : { "text", "voice" }, segments : 1..2 ] \
                                  { [ type |-> "voice", segments |-> 2 ] } ] :
                      n \in 1..MaxParts } :
        /\ \E i \in 1..Len(ps) : ps[i].type = "voice"
        /\ \A i \in 1..(Len(ps) - 1) : ps[i].type = "voice" \/ ps[i + 1].type = "voice" }

\* how a send through the bot ends: answered ok, rejected without reaching
\* the chat (not connected, failed status), or delivered with the answer
\* missing until the 30 s timer of _call rejects
SendOutcomes == { "ok", "failed", "lost" }

\* how the promise of synthesize ends; "pending" is the promise that the
\* socket's 'close' handler leaves unsettled
SynthesizeOutcomes == { "resolved", "rejected", "pending" }

\* the await the loop reaches when it turns to part r.i
Dispatch(r) ==
    IF r.i > Len(r.parts) THEN [ r EXCEPT !.pc = "done" ]
    ELSE IF r.parts[r.i].type = "text" THEN [ r EXCEPT !.pc = "text", !.seg = 1 ]
    ELSE IF r.enabled THEN [ r EXCEPT !.pc = "synth" ]
    ELSE [ r EXCEPT !.pc = "fallback" ]

InitReply ==
    /\ Start({}, {}, {}, {})
    /\ codec = NoCodec
    /\ session = NoSession
    /\ bot = NoBot
    /\ \E ps \in TextParts, enabled \in BOOLEAN :
          reply = Dispatch([ pc |-> "loop", parts |-> ps, i |-> 1, seg |-> 1,
                             outbox |-> <<>>, enabled |-> enabled ])

\* await bot.sendGroupMessage(group_id, segment.trim()) of a text part; an
\* error leaves the loop for the catch of handleMessage
SendText(o) ==
    /\ reply.pc = "text"
    /\ LET sent == IF o \in { "ok", "lost" }
                    THEN [ reply EXCEPT !.outbox =
                             Append(@, [ part |-> reply.i, kind |-> "text" ]) ]
                    ELSE reply
       IN  reply' = IF o # "ok" THEN [ sent EXCEPT !.pc = "failed" ]
                    ELSE IF reply.seg < reply.parts[reply.i].segments
                         THEN [ sent EXCEPT !.seg = @ + 1 ]
                    ELSE [ sent EXCEPT !.pc = "delay" ]
    /\ UNCHANGED << env, config, call, audioDir, now, hist, codec, session, bot >>

\* await ttsManager.synthesize(part.content)
Synthesize(o) ==
    /\ reply.pc = "synth"
    /\ reply' = [ reply EXCEPT !.pc = CASE o = "resolved" -> "record"
                                        [] o = "rejected" -> "fallback"
                                        [] OTHER -> "waiting" ]
    /\ UNCHANGED << env, config, call, audioDir, now, hist, codec, session, bot >>

\* await bot.sendGroupRecord(group_id, audioPath); an error is caught and
\* the fallback text follows
SendRecord(o) ==
    /\ reply.pc = "record"
    /\ LET sent == IF o \in { "ok", "lost" }
                    THEN [ reply EXCEPT !.outbox =
                             Append(@, [ part |-> reply.i, kind |-> "record" ]) ]
                    ELSE reply
       IN  reply' = [ sent EXCEPT !.pc = IF o = "ok" THEN "delay" ELSE "fallback" ]
    /\ UNCHANGED << env, config, call, audioDir, now, hist, codec, session, bot >>

\* await bot.sendGroupMessage(group_id, fallbackText), in the catch of the
\* voice part or with TTS switched off; an error leaves the loop
SendFallback(o) ==
    /\ reply.pc = "fallback"
    /\ LET sent == IF o \in { "ok", "lost" }
                    THEN [ reply EXCEPT !.outbox =
                             Append(@, [ part |-> reply.i, kind |-> "fallback" ]) ]
                    ELSE reply
       IN  reply' = [ sent EXCEPT !.pc = IF o = "ok" THEN "delay" ELSE "failed" ]
    /\ UNCHANGED << env, config, call, audioDir, now, hist, codec, session, bot >>

\* the 300 ms between two parts, then the next part
Delay ==
    /\ reply.pc = "delay"
    /\ reply' = Dispatch([ reply EXCEPT !.i = @ + 1 ])
    /\ UNCHANGED << env, config, call, audioDir, now, hist, codec, session, bot >>

NextReply ==
    \/ \E o \in SendOutcomes : SendText(o)
    \/ \E o \in SynthesizeOutcomes : Synthesize(o)
    \/ \E o \in SendOutcomes : SendRecord(o)
    \/ \E o \in SendOutcomes : SendFallback(o)
    \/ Delay

\* one reply with voice parts; every promise that settles is awaited on
SpecReply == InitReply /\ [][NextReply]_vars /\ WF_vars(NextReply)

(***************************************************************************)
(* Properties.                                                             *)
(***************************************************************************)
\* C1: a call made while the config has enabled = false is rejected at once
\* with NotEnabled, whatever the text and the credentials: no socket is
\* created, no frame is sent, no timer is started and no file is written.
NotEnabledNoConnection ==
    \A c \in DOMAIN call :
        (call[c].pc = "called" /\ ~hist[c].snap.enabled) =>
            /\ call[c].outcome = Rejected("NotEnabled", <<>>)
            /\ call[c].ws = "none"
            /\ call[c].headers = <<>>
            /\ call[c].sent = <<>>
            /\ call[c].timer = "none"
            /\ hist[c].writes = 0

\* a call with a long text was made while the config was switched off and
\* held both credentials
NotEnabledWitness ==
    \E c \in DOMAIN call :
        /\ call[c].pc = "called"
        /\ ~hist[c].snap.enabled
        /\ hist[c].snap.appid # "" /\ hist[c].snap.token # ""
        /\ call[c].arg.len > TextLimit
        /\ call[c].outcome.error = "NotEnabled"

\* C2: a call made while the config is enabled and appid or token is empty
\* is rejected with MissingCredentials before a socket is created; the
\* switch is checked first, so a config that is off and without credentials
\* gives NotEnabled.
MissingCredentialsNoConnection ==
    \A c \in DOMAIN call :
        LET snap == hist[c].snap
            missing == snap.appid = "" \/ snap.token = ""
        IN  call[c].pc = "called" =>
              /\ (snap.enabled /\ missing) =>
                    /\ call[c].outcome = Rejected("MissingCredentials", <<>>)
                    /\ call[c].ws = "none"
                    /\ call[c].headers = <<>>
                    /\ call[c].sent = <<>>
                    /\ call[c].timer = "none"
              /\ (~snap.enabled /\ missing) =>
                    call[c].outcome = Rejected("NotEnabled", <<>>)

\* a call was made while the config was enabled and held an appid but no
\* token
MissingCredentialsWitness ==
    \E c \in DOMAIN call :
        /\ call[c].pc = "called"
        /\ hist[c].snap.enabled
        /\ hist[c].snap.appid # "" /\ hist[c].snap.token = ""
        /\ call[c].outcome.error = "MissingCredentials"

\* C3: the text of every TaskRequest frame sent is the first
\* min(length, 1000) characters of the text passed to synthesize, and the
\* length of the text never makes a call with a working config fail before
\* it connects.
TaskRequestTextTruncated ==
    \A c \in DOMAIN call :
        LET r == call[c]
            snap == hist[c].snap
        IN  /\ \A i \in 1..Len(r.sent) :
                 r.sent[i].eventNumber = Events.TaskRequest =>
                    Chars(r.sent[i].payload.req_params.text)
                        = SubSeq(Chars(r.arg), 1, Min(r.arg.len, TextLimit))
            /\ (r.pc = "called" /\ snap.enabled /\ snap.appid # "" /\ snap.token # "")
                  => r.ws # "none"

\* a TaskRequest was sent for a text longer than the limit
TaskRequestTextWitness ==
    \E c \in DOMAIN call : \E i \in 1..Len(call[c].sent) :
        /\ call[c].sent[i].eventNumber = Events.TaskRequest
        /\ call[c].arg.len > TextLimit
        /\ call[c].sent[i].payload.req_params.text.len = TextLimit

\* the stages of C4 up to the last, on a run of the transition table
HappyPathStages(r, h) ==
    /\ h.happy \in {"called", "opened"} => State(r) = "ConnectionPending"
    /\ h.happy = "ConnectionStarted" => State(r) = "ConnectionOpen"
    /\ h.happy \in {"SessionStarted", "AudioResponse"} => State(r) = "SessionOpen"
    /\ h.happy = "SessionFinished" => State(r) = "SessionDraining"

AudioInArrivalOrder ==
    [][\A c \in DOMAIN call :
          hist'[c].writes > hist[c].writes =>
             \E f \in audioDir' :
                /\ f.name = FileName(now', config.encoding)
                /\ f.data = hist'[c].audioIn]_vars

\* a call that received chunk A and then chunk B was resolved with a file
\* that holds A followed by B
AudioInArrivalOrderWitness ==
    \E c \in DOMAIN call :
        /\ call[c].outcome.status = "resolved"
        /\ hist[c].audioIn = ChunkA \o ChunkB
        /\ Len(call[c].audioChunks) = 2
        /\ \E f \in audioDir : f.name = call[c].outcome.path /\ f.data = ChunkA \o ChunkB

\* C6 as stated: as long as a call that opened a socket is not settled, its
\* deadline stays armed, whatever happened on the socket.
DeadlineStaysArmed ==
    \A c \in DOMAIN call :
        (call[c].outcome.status = "pending" /\ call[c].ws # "none")
            => call[c].timer = "armed"

\* C7 as stated: an event that is not valid in the state of a pending call
\* leaves the state as it is or leads to Failed, sends no frame and leaves
\* audioChunks as it is.
InvalidEventIgnored ==
    [][\A c \in DOMAIN call : \A m \in ServerMessages :
          (/\ m.to = c
           /\ call[c].outcome.status = "pending"
           /\ ~ValidIn(State(call[c]), m)
           /\ WsMessage(c, m))
          => /\ State(call'[c]) \in { State(call[c]), "Failed" }
             /\ call'[c].sent = call[c].sent
             /\ call'[c].audioChunks = call[c].audioChunks]_vars

\* C8 as stated: once a call is settled its outcome stays, and nothing that
\* happens later sends a frame, changes audioChunks, writes a file or runs a
\* sweep.
AfterTerminalIgnored ==
    [][\A c \in DOMAIN call :
          call[c].outcome.status # "pending" =>
             /\ call'[c].outcome = call[c].outcome
             /\ call'[c].sent = call[c].sent
             /\ call'[c].audioChunks = call[c].audioChunks
             /\ hist'[c].writes = hist[c].writes
             /\ hist'[c].sweeps = hist[c].sweeps]_vars

\* C9 as stated: a call rejected after its socket was created has a socket
\* that is closing or closed.
FailureClosesTransport ==
    \A c \in DOMAIN call :
        (call[c].outcome.status = "rejected" /\ call[c].ws # "none")
            => call[c].ws \in {"closing", "closed"}

\* C10 as stated: a call whose socket was closed is settled: resolved before
\* the close, or else rejected.
UnexpectedCloseFails ==
    \A c \in DOMAIN call :
        call[c].ws = "closed" => call[c].outcome.status # "pending"

\* C11 as stated: a message that does not decode (shorter than the header,
\* or with a length field that overruns the buffer), delivered to a pending
\* call in whatever state, makes the call fail and closes its socket.
DecodeErrorAborts ==
    [][\A c \in DOMAIN call : \A m \in ServerMessages :
          (/\ m.to = c
           /\ m.kind = "malformed"
           /\ call[c].outcome.status = "pending"
           /\ WsMessage(c, m))
          => /\ call'[c].outcome.status = "rejected"
             /\ call'[c].ws \in {"closing", "closed"}]_vars

\* C12: an error frame delivered to a pending call rejects the call, closes
\* its socket and cancels its timer, and writes no file, also when audio
\* chunks have been accumulated.
ErrorFrameFails ==
    [][\A c \in DOMAIN call : \A m \in ServerMessages :
          (/\ m.to = c
           /\ m.kind = "error"
           /\ call[c].outcome.status = "pending"
           /\ WsMessage(c, m))
          => /\ call'[c].outcome.status = "rejected"
             /\ call'[c].outcome.error = "ErrorFrame"
             /\ call'[c].ws \in {"closing", "closed"}
             /\ call'[c].timer # "armed"
             /\ audioDir' = audioDir
             /\ hist'[c].writes = hist[c].writes]_vars

\* a call that had accumulated audio was rejected by an error frame: the
\* socket is closing, the timer is cleared and no file was written
ErrorFrameWitness ==
    \E c \in DOMAIN call :
        /\ call[c].outcome.error = "ErrorFrame"
        /\ call[c].audioChunks # <<>>
        /\ call[c].ws = "closing"
        /\ call[c].timer = "cleared"
        /\ hist[c].writes = 0
        /\ audioDir = {}

\* C13 as stated: every file written holds at least one byte, and a call is
\* resolved only with the path of such a file; a call that accumulated no
\* audio byte is never resolved.
EmptyResultNoFile ==
    /\ \A f \in audioDir : Len(f.data) > 0
    /\ \A c \in DOMAIN call :
          call[c].outcome.status = "resolved" =>
             /\ hist[c].audioIn # <<>>
             /\ \E f \in audioDir : f.name = call[c].outcome.path /\ Len(f.data) > 0

\* the session id of frame f is one parseFrame reads back: an id shorter
\* than the limit when the event number is 100 or more, none below 100
SessionIdFits(f) ==
    IF f.eventNumber >= 100
    THEN Truthy(f.sessionId) /\ Len(f.sessionId) < SessionIdLimit
    ELSE ~Truthy(f.sessionId)

\* decoded frame d carries what frame f was built from
SameFrame(f, d) ==
    /\ d.error = ""
    /\ ~d.isError
    /\ d.eventNumber = Num(f.eventNumber)
    /\ d.sessionId = f.sessionId
    /\ d.payload = f.payload

\* C14: parseFrame(buildFrame(f)) gives back the event number, the session
\* id and the JSON payload of every control frame f that carries a session
\* id of 1 to 99 bytes when its event number is 100 or more and no session
\* id when it is below 100.
RoundTrip ==
    (/\ codec.pc = "decoded"
     /\ codec.built
     /\ codec.cut = 0
     /\ codec.frame \in ControlFrames
     /\ SessionIdFits(codec.frame))
        => SameFrame(codec.frame, codec.decoded)

\* a TaskRequest frame with a session id and a JSON payload was encoded and
\* decoded, and a StartConnection frame without a session id
RoundTripWitness ==
    /\ codec.pc = "decoded"
    /\ codec.built
    /\ codec.cut = 0
    /\ \/ /\ codec.frame.eventNumber = Events.TaskRequest
          /\ codec.frame.sessionId = SessionId(1)
          /\ codec.decoded.sessionId = SessionId(1)
          /\ codec.decoded.payload = ObjectPayload(<< 110, 111 >>, NoString)
       \/ /\ codec.frame.eventNumber = Events.StartConnection
          /\ codec.frame.sessionId = NoString
          /\ codec.decoded.payload = EmptyJson

\* C14 as stated: the same for every control frame, with any event number
\* and with or without a session id.
RoundTripAnyFrame ==
    (/\ codec.pc = "decoded"
     /\ codec.built
     /\ codec.cut = 0
     /\ codec.frame \in ControlFrames)
        => SameFrame(codec.frame, codec.decoded)

\* C15 as stated: a buffer whose payload length announces more bytes than
\* follow decodes to an error, never to a frame.
OverrunIsDecodeError ==
    (codec.pc = "decoded" /\ codec.cut > 0) => codec.decoded.error # ""

\* C16: when a sweep runs over a directory whose files have distinct
\* modification times (the files there before and the file just written),
\* exactly the min(n, 50) most recently modified of the n files remain.
SweepKeepsMostRecent ==
    [][\A c \in DOMAIN call :
          hist'[c].sweeps > hist[c].sweeps =>
             \A written \in { WriteFile(audioDir, FileName(now', config.encoding),
                                        Concat(call[c].audioChunks), now') } :
                (\A f, g \in written : f.mtime = g.mtime => f = g) =>
                   /\ audioDir' \subseteq written
                   /\ Cardinality(audioDir') = Min(Cardinality(written), Retention)
                   /\ \A k \in audioDir' : \A d \in written \ audioDir' :
                         k.mtime > d.mtime]_vars

\* a call whose file was the 55th in the directory was resolved: 50 files
\* remain, its own among them, and the 5 oldest are gone
SweepWitness ==
    /\ "files" \in DOMAIN env
    /\ env.files = MaxFiles - 1
    /\ Cardinality(audioDir) = Retention
    /\ \A f \in audioDir : f.mtime > MaxFiles - Retention
    /\ \E c \in DOMAIN call :
          /\ call[c].outcome.status = "resolved"
          /\ \E f \in audioDir : f.name = call[c].outcome.path

\* C17 as stated: two calls that were resolved were given different file
\* paths.
UniqueFilePaths ==
    \A c, d \in DOMAIN call :
        (/\ c # d
         /\ call[c].outcome.status = "resolved"
         /\ call[d].outcome.status = "resolved")
            => call[c].outcome.path # call[d].outcome.path

\* C18 as stated: the StartSession and TaskRequest frames of a call carry
\* the voice, the format and the rates of the config as it was when the call
\* was made, and the file of a resolved call has the encoding of that config
\* as its extension, whatever updateConfig did in between.
ConfigSnapshotAtCallStart ==
    \A c \in DOMAIN call :
        LET r == call[c]
            snap == hist[c].snap
        IN  /\ \A i \in 1..Len(r.sent) :
                 r.sent[i].eventNumber \in { Events.StartSession, Events.TaskRequest } =>
                    /\ r.sent[i].payload.req_params.speaker = snap.voiceType
                    /\ r.sent[i].payload.req_params.audio_params.format = snap.encoding
            /\ \A i \in 1..Len(r.sent) :
                 r.sent[i].eventNumber = Events.TaskRequest =>
                    /\ r.sent[i].payload.req_params.audio_params.speech_rate
                          = Rate(snap.speedRatio)
                    /\ r.sent[i].payload.req_params.audio_params.loudness_rate
                          = Rate(snap.volumeRatio)
            /\ r.outcome.status = "resolved" => r.outcome.path.ext = snap.encoding

\* C19: a step changes the record of at most one call; the bytes a call has
\* accumulated are the audio of the messages delivered on its own socket, in
\* their order; and a call is resolved only by a file write of its own.
CallsIndependent ==
    /\ [](\A c \in DOMAIN call :
            /\ Concat(call[c].audioChunks) = hist[c].audioIn
            /\ call[c].outcome.status = "resolved" => hist[c].writes > 0)
    /\ [][\A c, d \in DOMAIN call :
            (c # d /\ call'[c] # call[c]) =>
               /\ call'[d] = call[d]
               /\ hist'[d] = hist[d]]_vars

\* two calls in flight together were both resolved, the first after two
\* chunks, the second after one
CallsIndependentWitness ==
    /\ DOMAIN call = Concurrent
    /\ call[1].outcome.status = "resolved"
    /\ call[2].outcome.status = "resolved"
    /\ call[1].audioChunks = << ChunkA, ChunkA >>
    /\ call[2].audioChunks = << ChunkA >>
    /\ hist[1].audioIn = ChunkA \o ChunkA
    /\ hist[2].audioIn = ChunkA

\* C20 as stated: a call creates at most one socket and sends
\* StartConnection at most once; once it is rejected it creates no socket
\* and sends no frame.
NoRetry ==
    /\ [](\A c \in DOMAIN call :
            Cardinality({ i \in 1..Len(call[c].sent) :
                            call[c].sent[i].eventNumber = Events.StartConnection }) <= 1)
    /\ [][\A c \in DOMAIN call :
            /\ call'[c].ws = "connecting" => call[c].ws \in {"none", "connecting"}
            /\ call'[c].headers # call[c].headers => call[c].headers = <<>>
            /\ call[c].outcome.status = "rejected" =>
                  /\ call'[c].sent = call[c].sent
                  /\ call'[c].headers = call[c].headers
                  /\ call'[c].ws = "connecting" => call[c].ws = "connecting"]_vars

\* C21 as stated: a call is resolved only in SessionDraining, after
\* ConnectionStarted and SessionStarted were received and FinishConnection
\* was sent on SessionFinished.
ResolvesOnlyFromDraining ==
    [][\A c \in DOMAIN call :
          (call[c].outcome.status = "pending" /\ call'[c].outcome.status = "resolved")
             => /\ State(call[c]) = "SessionDraining"
                /\ call[c].connectionStarted
                /\ call[c].sessionStarted]_vars

\* the event numbers of the frames a call has sent, in order
SentEvents(r) == [ i \in 1..Len(r.sent) |-> r.sent[i].eventNumber ]

\* the frames a step has added to those a call had sent
NewlySent(r, q) == SubSeq(SentEvents(q), Len(r.sent) + 1, Len(q.sent))

\* message m carries the event SessionStarted
IsSessionStarted(m) == m.kind = "event" /\ m.event = Events.SessionStarted

\* C22: the open handler sends StartConnection and nothing else sends
\* without a received message; a received message makes the call send at
\* most one frame, except SessionStarted, which makes a pending call send
\* TaskRequest and then FinishSession; on a run of the transition table the
\* frames sent are StartConnection, StartSession, TaskRequest, FinishSession
\* and FinishConnection, in that order, once each.
NoPipelining ==
    /\ [](\A c \in DOMAIN call :
            LET sent == SentEvents(call[c])
                h == hist[c].happy
            IN  /\ h = "called" => sent = <<>>
                /\ h = "opened" => sent = << Events.StartConnection >>
                /\ h = "ConnectionStarted" =>
                      sent = << Events.StartConnection, Events.StartSession >>
                /\ h \in {"SessionStarted", "AudioResponse"} =>
                      sent = << Events.StartConnection, Events.StartSession,
                                Events.TaskRequest, Events.FinishSession >>
                /\ h \in {"SessionFinished", "ConnectionFinished"} =>
                      sent = << Events.StartConnection, Events.StartSession,
                                Events.TaskRequest, Events.FinishSession,
                                Events.FinishConnection >>)
    /\ [][\A c \in DOMAIN call :
            LET r == call[c]
                q == call'[c]
                new == NewlySent(r, q)
            IN  /\ SubSeq(q.sent, 1, Len(r.sent)) = r.sent
                /\ (r.ws = "connecting" /\ q.ws = "open") =>
                      new = << Events.StartConnection >>
                /\ (new # <<>> /\ r.ws # "connecting") =>
                      \E m \in ServerMessages : m.to = c /\ WsMessage(c, m)
                /\ Len(new) > 1 =>
                      \A m \in ServerMessages :
                         (m.to = c /\ WsMessage(c, m)) => IsSessionStarted(m)
                /\ \A m \in { w \in ServerMessages : w.to = c /\ IsSessionStarted(w) } :
                      WsMessage(c, m) =>
                         /\ new \in { <<>>, << Events.TaskRequest, Events.FinishSession >> }
                         /\ r.outcome.status = "pending" => new # <<>>]_vars

\* a run of the transition table was completed and the five frames went
\* out in order
NoPipeliningWitness ==
    \E c \in DOMAIN call :
        /\ hist[c].happy = "ConnectionFinished"
        /\ call[c].outcome.status = "resolved"
        /\ SentEvents(call[c]) =
              << Events.StartConnection, Events.StartSession, Events.TaskRequest,
                 Events.FinishSession, Events.FinishConnection >>

\* C23: every frame a call has sent with an event number of 100 or more
\* carries the session id of that call, and every frame with an event
\* number below 100 carries none.
SessionIdOnSessionFrames ==
    \A c \in DOMAIN call : \A i \in 1..Len(call[c].sent) :
        LET f == call[c].sent[i]
        IN  IF f.eventNumber >= 100
            THEN f.sessionId = SessionId(c)
            ELSE f.sessionId = NoString

\* a call has sent all five frames: three with its session id, two without
SessionIdWitness ==
    \E c \in DOMAIN call :
        /\ Sent(call[c], Events.StartConnection)
        /\ Sent(call[c], Events.FinishConnection)
        /\ \E i, j, k \in 1..Len(call[c].sent) :
              /\ call[c].sent[i].eventNumber = Events.StartSession
              /\ call[c].sent[j].eventNumber = Events.TaskRequest
              /\ call[c].sent[k].eventNumber = Events.FinishSession
              /\ call[c].sent[i].sessionId = SessionId(c)
              /\ call[c].sent[j].sessionId = call[c].sent[i].sessionId
              /\ call[c].sent[k].sessionId = call[c].sent[i].sessionId

\* C24: the event numbers of the frames a call has sent are those of
\* StartConnection, StartSession, TaskRequest, FinishSession and
\* FinishConnection; CancelSession is never sent, whatever the outcome.
NeverCancelSession ==
    \A c \in DOMAIN call : \A i \in 1..Len(call[c].sent) :
        /\ call[c].sent[i].eventNumber # Events.CancelSession
        /\ call[c].sent[i].eventNumber \in
              { Events.StartConnection, Events.StartSession, Events.TaskRequest,
                Events.FinishSession, Events.FinishConnection }

\* a call whose session was open timed out: the frames it sent end with
\* FinishSession
NeverCancelSessionWitness ==
    \E c \in DOMAIN call :
        /\ call[c].outcome.error = "Timeout"
        /\ call[c].sessionStarted
        /\ SentEvents(call[c]) =
              << Events.StartConnection, Events.StartSession, Events.TaskRequest,
                 Events.FinishSession >>

\* C25: a message with an event number the client does not know, a
\* TTSSentenceStart and a TTSSentenceEnd leave the call as it is: outcome,
\* socket, flags, accumulator, timer and frames sent; no file is written.
InformationalIgnored ==
    [][\A c \in DOMAIN call : \A m \in ServerMessages :
          (/\ m.to = c
           /\ m.tag \in { "Unknown", "TTSSentenceStart", "TTSSentenceEnd" }
           /\ WsMessage(c, m))
          => /\ call'[c] = call[c]
             /\ audioDir' = audioDir
             /\ now' = now]_vars

\* a pending call has heard a message that left it as it was: its session
\* is open, its timer is armed, and none of the messages it heard but those
\* of the table has changed it
InformationalWitness ==
    \E c \in DOMAIN call :
        /\ env.messages = TableMessages \cup { "TTSSentenceStart", "TTSSentenceEnd", "Unknown" }
        /\ call[c].outcome.status = "pending"
        /\ call[c].ws = "open"
        /\ call[c].timer = "armed"
        /\ State(call[c]) = "SessionOpen"
        /\ SentEvents(call[c]) =
              << Events.StartConnection, Events.StartSession, Events.TaskRequest,
                 Events.FinishSession >>
        /\ call[c].audioChunks = <<>>
        /\ hist[c].nMsgs = 2
        /\ hist[c].happy = "off"

\* C26 as stated: every file write of a call is followed by one sweep, in
\* the step that resolves the call, and a call that is rejected has run no
\* sweep.
SweepOnlyOnSuccess ==
    /\ [](\A c \in DOMAIN call :
            /\ hist[c].sweeps = hist[c].writes
            /\ call[c].outcome.status = "rejected" => hist[c].sweeps = 0)
    /\ [][\A c \in DOMAIN call :
            hist'[c].sweeps > hist[c].sweeps =>
               /\ hist'[c].sweeps = hist[c].sweeps + 1
               /\ call[c].outcome.status = "pending"
               /\ call'[c].outcome.status = "resolved"]_vars

\* C27 as stated: a sweep that finds a file of its listing already deleted
\* goes on: the directory is back at the retention count after it and the
\* call that ran it is resolved with its path.
VanishedFileIsNoOp ==
    [][\A c \in DOMAIN call :
          (hist'[c].sweeps > hist[c].sweeps /\ call[c].outcome.status = "pending")
             => /\ call'[c].outcome.status = "resolved"
                /\ Cardinality({ f \in audioDir' : f.name.prefix = "tts_" }) <= Retention]_vars

\* C28 as stated: every buffer of at least 4 bytes whose message type is
\* 15 is decoded as an error frame with an error code.
ErrorTypeIsErrorFrame ==
    (/\ codec.pc = "decoded"
     /\ Len(codec.bytes) >= 4
     /\ codec.bytes[2] \div 16 = 15)
        => /\ codec.decoded.error = ""
           /\ codec.decoded.isError
           /\ codec.decoded.errorCode # NullInt

\* C29: parseFrame gives a result for every buffer: "Frame too short"
\* exactly for the buffers of fewer than 4 bytes, and for every longer one,
\* wherever it ends and whatever header size it declares, a frame with
\* the header fields of its first three bytes; a frame that was built and
\* not cut is never an error.
DecodeTotal ==
    codec.pc = "decoded" =>
        LET d == codec.decoded
            b == codec.bytes
        IN  IF Len(b) < 4
            THEN d.error = "Frame too short"
            ELSE /\ d.error = ""
                 /\ d.header.headerSize = (b[1] % 16) * 4
                 /\ d.header.messageType = b[2] \div 16
                 /\ d.header.messageTypeFlags = b[2] % 16
                 /\ d.header.serializationMethod = b[3] \div 16
                 /\ d.isError => d.header.messageType = 15

\* a buffer whose declared header size lies beyond its end was decoded to
\* a frame
DecodeTotalWitness ==
    /\ codec.pc = "decoded"
    /\ Len(codec.bytes) >= 4
    /\ codec.decoded.header.headerSize > Len(codec.bytes)
    /\ codec.decoded.error = ""
    /\ codec.decoded.payload = NullPayload

\* the four bytes at offset at of buffer b as a length, -1 where the buffer
\* ends before them
DeclaredLength(b, at) ==
    IF at + 4 <= Len(b)
    THEN (b[at + 1] * 16777216) + (b[at + 2] * 65536) + (b[at + 3] * 256) + b[at + 4]
    ELSE -1

\* C30: a decoded frame has a session id only if its event number was
\* read and is at least 100; where the session id length that follows the
\* event number is 0, is 100 or more, is cut off or announces more bytes
\* than follow, the frame has no session id and is no error; otherwise the
\* session id is the announced bytes.
SessionIdOnlyOnSessionEvents ==
    (/\ codec.pc = "decoded"
     /\ Len(codec.bytes) >= 4
     /\ ~codec.decoded.isError)
        => LET d == codec.decoded
               b == codec.bytes
               sessionEvent == d.eventNumber # NullInt /\ d.eventNumber[1] >= 100
               at == d.header.headerSize + 4
               len == DeclaredLength(b, at)
           IN  /\ d.error = ""
               /\ d.sessionId # NoString => sessionEvent
               /\ sessionEvent =>
                     IF len > 0 /\ len < 100 /\ at + 4 + len <= Len(b)
                     THEN d.sessionId = Slice(b, at + 4, at + 4 + len)
                     ELSE d.sessionId = NoString

\* a SessionStarted frame with a session id length of 0 was decoded: no
\* session id, and the payload behind the length field was read
SessionIdWitnessZeroLength ==
    /\ codec.pc = "decoded"
    /\ ~codec.built
    /\ codec.bytes = ZeroSessionIdMessage.bytes
    /\ codec.decoded.eventNumber = Num(Events.SessionStarted)
    /\ codec.decoded.sessionId = NoString
    /\ codec.decoded.error = ""
    /\ codec.decoded.payload # NullPayload

\* the four bytes at offset at of buffer b as a signed number
SignedAt(b, at) ==
    LET top == IF b[at + 1] >= 128 THEN b[at + 1] - 256 ELSE b[at + 1]
    IN  (top * 16777216) + (b[at + 2] * 65536) + (b[at + 3] * 256) + b[at + 4]

\* C31: the bytes buildFrame returns are the header 0x11, type and flags,
\* serialization and compression, 0; then the event number in 4 bytes
\* exactly when bit 2 of the flags is set; then, only if a session id is
\* given, its length in 4 bytes and its bytes; then, for a payload, its
\* length in 4 bytes and its bytes; nothing else, and each length is the
\* number of bytes of its field.
EncodeLayout ==
    (/\ codec.pc = "encoded"
     /\ codec.built
     /\ codec.cut = 0)
        => LET f == codec.frame
               b == codec.bytes
               hasEvent == (f.messageTypeFlags \div 4) % 2 = 1
               e == IF hasEvent THEN 4 ELSE 0
               hasSession == f.sessionId # NoString
               s == IF hasSession THEN 4 + Len(f.sessionId) ELSE 0
               hasPayload == f.payload # NullPayload
               body == IF f.payload.kind = "buffer" THEN f.payload.bytes
                       ELSE IF f.payload = EmptyJson THEN << 123, 125 >>
                       ELSE JSONStringify(f.payload)
               p == IF hasPayload THEN 4 + Len(body) ELSE 0
           IN  /\ Len(b) = 4 + e + s + p
               /\ b[1] = 17
               /\ b[2] = (f.messageType * 16) + f.messageTypeFlags
               /\ b[3] = (f.serializationMethod * 16) + f.compressionMethod
               /\ b[4] = 0
               /\ hasEvent => SignedAt(b, 4) = f.eventNumber
               /\ hasSession =>
                     /\ DeclaredLength(b, 4 + e) = Len(f.sessionId)
                     /\ Slice(b, 4 + e + 4, 4 + e + s) = f.sessionId
               /\ hasPayload =>
                     /\ DeclaredLength(b, 4 + e + s) = Len(body)
                     /\ DeclaredLength(b, 4 + e + s) = Len(b) - (4 + e + s + 4)
                     /\ Slice(b, 4 + e + s + 4, Len(b)) = body

\* an audio frame was built with event number, session id and a payload of
\* two bytes: 4 + 4 + (4 + 2) + (4 + 2) bytes; and one without any of them
EncodeLayoutWitness ==
    /\ codec.pc = "encoded"
    /\ codec.built
    /\ codec.cut = 0
    /\ codec.frame.messageTypeFlags = 4
    /\ codec.frame.sessionId = SessionId(1)
    /\ codec.frame.payload = BufferPayload(ChunkB)
    /\ Len(codec.bytes) = 20
    /\ SubSeq(codec.bytes, 15, 20) = << 0, 0, 0, 2 >> \o ChunkB

\* C32 as stated: every synthesize call that was made is settled in the
\* end, resolved or rejected, whatever the transport does.
EverySynthesizeSettles ==
    \A c \in Callers :
        (call[c].pc = "called") ~> (call[c].outcome.status # "pending")

\* C33 as stated: a call writes at most one file, only in the step that
\* resolves it; a call that is rejected has written none and writes none
\* afterwards, and a resolved call writes no second one.
AtMostOneFileOnSuccess ==
    /\ [](\A c \in DOMAIN call :
            /\ hist[c].writes <= 1
            /\ hist[c].writes = 1 => call[c].outcome.status = "resolved")
    /\ [][\A c \in DOMAIN call :
            (hist'[c].writes > hist[c].writes \/ audioDir' # audioDir) =>
               /\ call[c].outcome.status = "pending"
               /\ call'[c].outcome.status = "resolved"]_vars

\* the files of a directory that are named tts_*
Clips(dir) == { f \in dir : f.name.prefix = "tts_" }

\* C34: no step removes a file that is not named tts_*; the step that
\* resolves a call leaves its file in the directory and leaves as many
\* tts_* files as there are with the new one, but at most 50, whatever
\* other files there are; and while a call is resolved the directory holds
\* at most 50 tts_* files.
DirectoryWithinRetention ==
    /\ [][audioDir' = audioDir \/ (audioDir \ Clips(audioDir)) \subseteq audioDir']_vars
    /\ [][\A c \in DOMAIN call :
            (call[c].outcome.status = "pending" /\ call'[c].outcome.status = "resolved")
               => /\ \E f \in audioDir' : f.name = call'[c].outcome.path
                  /\ Cardinality(Clips(audioDir')) =
                        Min(Cardinality({ f.name : f \in Clips(audioDir) }
                                          \cup { call'[c].outcome.path }),
                            Retention)]_vars
    /\ []((\E c \in DOMAIN call : call[c].outcome.status = "resolved")
            => Cardinality(Clips(audioDir)) <= Retention)

\* two calls were resolved with different files: both files are there with
\* 48 of the 49 older clips, and so are the two files of other names
DirectoryWitness ==
    /\ DOMAIN call = Concurrent
    /\ \A c \in DOMAIN call :
          /\ call[c].outcome.status = "resolved"
          /\ \E f \in audioDir : f.name = call[c].outcome.path
    /\ call[1].outcome.path # call[2].outcome.path
    /\ Cardinality(Clips(audioDir)) = Retention
    /\ Cardinality(audioDir \ Clips(audioDir)) = 2
    /\ \A f \in Clips(audioDir) : f.mtime > 1

\* the sticky setting of the entry with key k
StickyOf(k) == WorldBook[CHOOSE i \in 1..Len(WorldBook) : WorldBook[i].uid = k].sticky

\* C35 as stated: a turn in which an entry is active through stickiness
\* alone lowers its remaining count, and an entry with sticky = n is out of
\* the sticky set once n turns have been completed without a keyword match
\* of it.
StickyExpires ==
    /\ [](session.pc = "chat" =>
            \A k \in EntryKeys :
               (session.since[k] >= StickyOf(k)) => session.stickyEntries[k] = 0)
    /\ [][session.pc = "chat" =>
            \A k \in EntryKeys :
               (/\ session.stickyEntries[k] > 0
                /\ session'.last = "reply"
                /\ session'.since[k] > session.since[k])
                  => session'.stickyEntries[k] < session.stickyEntries[k]]_vars

\* C36 as stated: the 'close' event of a socket that is no longer this.ws
\* changes neither this.connected nor this.ws and sets no timer, and never
\* more than one reconnect timer is pending.
ReplacedSocketCloseIgnored ==
    /\ [](bot.pc = "bot" => bot.timers <= 1)
    /\ [][\A i \in 1..(IF bot.pc = "bot" THEN Len(bot.sockets) ELSE 0) :
               (/\ i # bot.ws
                /\ bot.sockets[i] # "closed"
                /\ bot'.sockets = [ bot.sockets EXCEPT ![i] = "closed" ])
                  => /\ bot'.connected = bot.connected
                     /\ bot'.timers = bot.timers
                     /\ bot'.ws = bot.ws]_vars

\* C37 as stated: whenever the socket in this.ws is open, this.connected
\* is true, and _call is not rejected as not connected.
ConnectedDescribesCurrentSocket ==
    /\ []((bot.pc = "bot" /\ bot.ws # 0 /\ bot.sockets[bot.ws] = "open")
            => bot.connected)
    /\ [][(/\ bot.pc = "bot"
             /\ bot.ws # 0
             /\ bot.sockets[bot.ws] = "open"
             /\ bot'.sockets = bot.sockets
             /\ bot'.last # bot.last)
               => bot'.last # "NotConnected"]_vars

\* messages of the outbox that part i has put into the chat
OutboundOf(i) == { n \in 1..Len(reply.outbox) : reply.outbox[n].part = i }

\* C38 as stated: when the loop has run through the parts, every voice part of the
\* reply has put exactly one message into the chat, a record or the
\* fallback text, the messages stand in the order of the parts, and a voice
\* part whose synthesis has started is always followed by the next part.
VoicePartsAnswered ==
    /\ []((reply.pc = "done") =>
            /\ \A i \in 1..Len(reply.parts) :
                  reply.parts[i].type = "voice" =>
                     /\ Cardinality(OutboundOf(i)) = 1
                     /\ \A n \in OutboundOf(i) : reply.outbox[n].kind \in { "record", "fallback" }
            /\ \A n \in 1..(Len(reply.outbox) - 1) :
                  reply.outbox[n].part <= reply.outbox[n + 1].part)
    /\ \A i \in 1..MaxParts :
          (reply.pc = "synth" /\ reply.i = i) ~> (reply.pc # "none" /\ reply.i > i)

=============================================================================
